---- MODULE Spec2Model ----
(***************************************************************************)
(* A model of the analysis pipeline of peek-a-bin: the disassembly worker  *)
(* (function detection), the CFG builder and loop detector, and the PE     *)
(* parser.  Each component has its own specification over its own          *)
(* variables; the variables of the other components stay idle.             *)
(***************************************************************************)
EXTENDS Integers, Sequences, FiniteSets, TLC

VARIABLES
    initialized, stringMap, iatMap, wreq, wres, wlog,   \* disassembly worker
    cfgIn, cfgPc, cfgBlocks, cfgLoops,   \* CFG pipeline
    peImage, pePc, peOut, iatOut,   \* PE parser and its first consumer
    rvaIn, rvaOut,   \* RVA translation
    swLen, swOffset, swOut, swLog, swBudget, swPc,   \* linear sweep
    cliImage, disasmCache, pending, nextId, toWorker, toClient, cliOut, engCache, engOut,   \* worker client and engine caches
    xrIn, xrOut,   \* xref builder
    sigIn, sigOut,   \* signature inference
    stackIn, stackOut,   \* stack frame analysis
    rpcNextId, rpcPending, rpcSent, rpcToWorker, rpcToClient, rpcSettled, rpcStray,   \* worker RPC
    viewDeps, disassembling, viewEffect, viewInFlight, viewCancelled, viewChanges,   \* DisassemblyView effect
    currentAddress, addressHistory, historyIndex, bookmarks, renames, comments, annotationUndoStack, annotationRedoStack, annotationActions,   \* appReducer state
    rowsIn, rowsPc, displayRows, currentIndex   \* DisassemblyView rows

workerVars == <<initialized, stringMap, iatMap, wreq, wres, wlog>>
cfgVars == <<cfgIn, cfgPc, cfgBlocks, cfgLoops>>
peVars == <<peImage, pePc, peOut, iatOut>>
rvaVars == <<rvaIn, rvaOut>>
sweepVars == <<swLen, swOffset, swOut, swLog, swBudget, swPc>>
clientVars == <<cliImage, disasmCache, pending, nextId, toWorker, toClient, cliOut, engCache, engOut>>
xrefVars == <<xrIn, xrOut>>
sigVars == <<sigIn, sigOut>>
stackVars == <<stackIn, stackOut>>
rpcVars == <<rpcNextId, rpcPending, rpcSent, rpcToWorker, rpcToClient, rpcSettled, rpcStray>>
viewVars == <<viewDeps, disassembling, viewEffect, viewInFlight, viewCancelled, viewChanges>>
appVars == <<currentAddress, addressHistory, historyIndex, bookmarks, renames, comments, annotationUndoStack, annotationRedoStack, annotationActions>>
rowsVars == <<rowsIn, rowsPc, displayRows, currentIndex>>
vars == <<workerVars,
          cfgVars,
          peVars,
          rvaVars,
          sweepVars,
          clientVars,
          xrefVars,
          sigVars,
          stackVars,
          rpcVars,
          viewVars,
          appVars,
          rowsVars>>

\* the variables each component leaves alone
notWorker == <<cfgVars, peVars, rvaVars, sweepVars, clientVars, xrefVars,
      sigVars, stackVars, rpcVars, viewVars, appVars, rowsVars>>
notCfg == <<workerVars, peVars, rvaVars, sweepVars, clientVars, xrefVars,
      sigVars, stackVars, rpcVars, viewVars, appVars, rowsVars>>
notPe == <<workerVars, cfgVars, rvaVars, sweepVars, clientVars, xrefVars,
      sigVars, stackVars, rpcVars, viewVars, appVars, rowsVars>>
notRva == <<workerVars, cfgVars, peVars, sweepVars, clientVars, xrefVars,
      sigVars, stackVars, rpcVars, viewVars, appVars, rowsVars>>
notSweep == <<workerVars, cfgVars, peVars, rvaVars, clientVars, xrefVars,
      sigVars, stackVars, rpcVars, viewVars, appVars, rowsVars>>
notClient == <<workerVars, cfgVars, peVars, rvaVars, sweepVars, xrefVars,
      sigVars, stackVars, rpcVars, viewVars, appVars, rowsVars>>
notXref == <<workerVars, cfgVars, peVars, rvaVars, sweepVars, clientVars,
      sigVars, stackVars, rpcVars, viewVars, appVars, rowsVars>>
notSig == <<workerVars, cfgVars, peVars, rvaVars, sweepVars, clientVars,
      xrefVars, stackVars, rpcVars, viewVars, appVars, rowsVars>>
notStack == <<workerVars, cfgVars, peVars, rvaVars, sweepVars, clientVars,
      xrefVars, sigVars, rpcVars, viewVars, appVars, rowsVars>>
notRpc == <<workerVars, cfgVars, peVars, rvaVars, sweepVars, clientVars,
      xrefVars, sigVars, stackVars, viewVars, appVars, rowsVars>>
notView == <<workerVars, cfgVars, peVars, rvaVars, sweepVars, clientVars,
      xrefVars, sigVars, stackVars, rpcVars, appVars, rowsVars>>
notApp == <<workerVars, cfgVars, peVars, rvaVars, sweepVars, clientVars,
      xrefVars, sigVars, stackVars, rpcVars, viewVars, rowsVars>>
notRows == <<workerVars, cfgVars, peVars, rvaVars, sweepVars, clientVars,
      xrefVars, sigVars, stackVars, rpcVars, viewVars, appVars>>

None == [none |-> TRUE]
EmptyMap == [x \in {} |-> 0]
\* an absent optional number (addresses and offsets are never negative)
Undefined == -1

(***************************************************************************)
(* Generic helpers.                                                        *)
(***************************************************************************)
Min(a, b) == IF a < b THEN a ELSE b

RECURSIVE SortAsc(_)
\* Array.from(set).sort((a, b) => a - b)
SortAsc(S) ==
    IF S = {} THEN <<>>
    ELSE LET m == CHOOSE x \in S : \A y \in S : x <= y
         IN <<m>> \o SortAsc(S \ {m})

RECURSIVE Concat(_)
Concat(ss) == IF ss = <<>> THEN <<>> ELSE Head(ss) \o Concat(Tail(ss))

\* bytes[i] with the code's 0-based index i
ByteAt(bytes, i) == bytes[i + 1]

(***************************************************************************)
(* Operand strings.  An operand string is a sequence of tokens: a hex      *)
(* literal 0xH+, a RIP-relative reference [rip +/- 0xH+], or other text.   *)
(***************************************************************************)
Hex(n) == [t |-> "hex", s |-> 0, v |-> n]
Rip(sign, n) == [t |-> "rip", s |-> sign, v |-> n]
Txt == [t |-> "txt", s |-> 0, v |-> 0]

\* opStr.match(/^0x([0-9a-fA-F]+)$/): the operand is solely one hex literal
DirectMatch(opStr) == Len(opStr) = 1 /\ opStr[1].t = "hex"
DirectTarget(opStr) == opStr[1].v

(***************************************************************************)
(* The instruction decoder (capstone) on the subset of x86 the inputs use. *)
(* disasm decodes from the start of the chunk and stops at the first byte  *)
(* sequence it cannot decode, or at the end of the chunk.                  *)
(***************************************************************************)
Rel32(b0, b1, b2, b3) ==
    LET u == b0 + 256 * b1 + 65536 * b2 + 16777216 * (b3 % 128)
    IN IF b3 >= 128 THEN u - 2147483647 - 1 ELSE u

Rel8(b) == IF b >= 128 THEN b - 256 ELSE b

Insn(addr, size, mn, op) ==
    [address |-> addr, size |-> size, mnemonic |-> mn, opStr |-> op]

\* One instruction at 0-based offset off of bytes (limit end), or None.
DecodeOne(bytes, off, end, base, is64) ==
    LET b0 == ByteAt(bytes, off)
        avail == end - off
        addr == base + off
    IN CASE b0 = 195 -> Insn(addr, 1, "ret", <<>>)
         [] b0 = 204 -> Insn(addr, 1, "int3", <<>>)
         [] b0 = 144 -> Insn(addr, 1, "nop", <<>>)
         [] b0 = 85 -> Insn(addr, 1, "push", <<Txt>>)
         [] b0 = 232 /\ avail >= 5 ->
              Insn(addr, 5, "call",
                   <<Hex(addr + 5 + Rel32(ByteAt(bytes, off + 1), ByteAt(bytes, off + 2),
                                          ByteAt(bytes, off + 3), ByteAt(bytes, off + 4)))>>)
         [] b0 = 235 /\ avail >= 2 ->
              Insn(addr, 2, "jmp", <<Hex(addr + 2 + Rel8(ByteAt(bytes, off + 1)))>>)
         [] b0 = 72 /\ is64 /\ avail >= 3 /\ ByteAt(bytes, off + 1) = 137 ->
              Insn(addr, 3, "mov", <<Txt>>)
         [] b0 = 72 /\ is64 /\ avail >= 4 /\ ByteAt(bytes, off + 1) = 131
                 /\ ByteAt(bytes, off + 2) = 236 ->
              Insn(addr, 4, "sub", <<Txt, Hex(ByteAt(bytes, off + 3))>>)
         [] b0 = 72 /\ ~is64 -> Insn(addr, 1, "dec", <<Txt>>)
         [] b0 \in {137, 139} /\ avail >= 2 /\ ByteAt(bytes, off + 1) >= 192 ->
              Insn(addr, 2, "mov", <<Txt>>)
         [] OTHER -> None

RECURSIVE DisasmFrom(_, _, _, _, _)
DisasmFrom(bytes, off, end, base, is64) ==
    IF off >= end THEN <<>>
    ELSE LET i == DecodeOne(bytes, off, end, base, is64)
         IN IF i = None THEN <<>>
            ELSE <<i>> \o DisasmFrom(bytes, off + i.size, end, base, is64)

\* cs.disasm(bytes.subarray(offset, chunkEnd), { address: baseAddress + offset })
disasm(bytes, offset, chunkEnd, baseAddress, is64) ==
    DisasmFrom(bytes, offset, chunkEnd, baseAddress, is64)

CHUNK_SIZE == 65536
TwoMiB == 2097152

(***************************************************************************)
(* detectFunctions (disassembly worker).                                   *)
(***************************************************************************)
\* mutant: the entry point is no seed
EntrySeeds_Ignored(options, baseAddress, endAddress) == {}

\* options.entryPoint, when given and inside the section
EntrySeeds(options, baseAddress, endAddress) ==
    IF options.entryPoint # Undefined
       /\ options.entryPoint >= baseAddress /\ options.entryPoint < endAddress
    THEN {options.entryPoint} ELSE {}

\* options.exports inside the section
ExportSeeds(options, baseAddress, endAddress) ==
    {options.exports[k].address : k \in
        {j \in DOMAIN options.exports :
            options.exports[j].address >= baseAddress
            /\ options.exports[j].address < endAddress}}

\* the prologue test of one offset i
IsFunctionStart(bytes, i, is64) ==
    LET len == Len(bytes)
        B(k) == ByteAt(bytes, k)
    IN IF is64
       THEN \/ (i + 3 < len /\ B(i) = 85 /\ B(i + 1) = 72 /\ B(i + 2) = 137 /\ B(i + 3) = 229)
            \/ (i + 3 < len /\ B(i) = 72 /\ B(i + 1) = 131 /\ B(i + 2) = 236)
            \/ (i + 6 < len /\ B(i) = 72 /\ B(i + 1) = 129 /\ B(i + 2) = 236)
       ELSE \/ (i + 2 < len /\ B(i) = 85 /\ B(i + 1) = 139 /\ B(i + 2) = 236)
            \/ (i + 2 < len /\ B(i) = 85 /\ B(i + 1) = 137 /\ B(i + 2) = 229)

PrologueSeeds(bytes, baseAddress, is64) ==
    {baseAddress + i : i \in {j \in 0..(Len(bytes) - 1) : IsFunctionStart(bytes, j, is64)}}

IsPad(b) == b = 204 \/ b = 144

RECURSIVE PadEnd(_, _)
\* while (padEnd < len && pad(bytes[padEnd])) padEnd++
PadEnd(bytes, padEnd) ==
    IF padEnd < Len(bytes) /\ IsPad(ByteAt(bytes, padEnd))
    THEN PadEnd(bytes, padEnd + 1) ELSE padEnd

RECURSIVE PadScan(_, _, _)
\* the alignment padding loop from index i on
PadScan(bytes, baseAddress, i) ==
    IF i >= Len(bytes) THEN {}
    ELSE IF IsPad(ByteAt(bytes, i))
         THEN LET padEnd == PadEnd(bytes, i + 1)
                  hit == padEnd - i >= 2 /\ padEnd < Len(bytes)
                         /\ ~IsPad(ByteAt(bytes, padEnd))
              IN (IF hit THEN {baseAddress + padEnd} ELSE {})
                 \cup PadScan(bytes, baseAddress, padEnd)
         ELSE PadScan(bytes, baseAddress, i + 1)

PadSeeds(bytes, baseAddress) == PadScan(bytes, baseAddress, 0)

IsUnconditional(mn) == mn = "ret" \/ mn = "retn" \/ mn = "jmp"

RECURSIVE CallInsns(_, _, _, _)
\* the for-loop over one chunk's instructions; st = [addrs, callTargets, prev]
CallInsns(insns, st, baseAddress, endAddress) ==
    IF insns = <<>> THEN st
    ELSE LET insn == Head(insns)
             isCall == insn.mnemonic = "call" /\ DirectMatch(insn.opStr)
                       /\ DirectTarget(insn.opStr) >= baseAddress
                       /\ DirectTarget(insn.opStr) < endAddress
             ct == IF isCall THEN st.callTargets \cup {DirectTarget(insn.opStr)}
                   ELSE st.callTargets
             a1 == IF isCall THEN st.addrs \cup {DirectTarget(insn.opStr)} ELSE st.addrs
             a2 == IF st.prev /\ insn.address \in ct THEN a1 \cup {insn.address} ELSE a1
         IN CallInsns(Tail(insns),
                      [addrs |-> a2, callTargets |-> ct,
                       prev |-> IsUnconditional(insn.mnemonic)],
                      baseAddress, endAddress)

RECURSIVE CallSweep(_, _, _, _, _)
\* while (offset < len): decode a chunk, collect, advance
CallSweep(bytes, baseAddress, is64, offset, st) ==
    LET len == Len(bytes) IN
    IF offset >= len THEN st
    ELSE LET chunkEnd == Min(offset + CHUNK_SIZE, len)
             insns == disasm(bytes, offset, chunkEnd, baseAddress, is64)
             st1 == CallInsns(insns, st, baseAddress, baseAddress + len)
         IN IF insns = <<>>
            THEN CallSweep(bytes, baseAddress, is64, offset + 1,
                           [st1 EXCEPT !.prev = FALSE])
            ELSE LET lastInsn == insns[Len(insns)]
                     decoded == (lastInsn.address - (baseAddress + offset)) + lastInsn.size
                 IN CallSweep(bytes, baseAddress, is64, offset + decoded, st1)

\* the call-target pass: runs for sections < 2 MiB once the decoder is loaded
CallSeeds(bytes, baseAddress, is64, init) ==
    IF Len(bytes) < TwoMiB /\ init
    THEN CallSweep(bytes, baseAddress, is64, 0,
                   [addrs |-> {}, callTargets |-> {}, prev |-> FALSE]).addrs
    ELSE {}

\* the set addrSet before sorting
StartAddrs(bytes, baseAddress, is64, options, init) ==
    LET endAddress == baseAddress + Len(bytes)
    IN EntrySeeds(options, baseAddress, endAddress)
       \cup ExportSeeds(options, baseAddress, endAddress)
       \cup PrologueSeeds(bytes, baseAddress, is64)
       \cup PadSeeds(bytes, baseAddress)
       \cup CallSeeds(bytes, baseAddress, is64, init)

\* nameMap.get(addr) || sub_<HEX>: exports overwrite the entry point's name
FunctionName(addr, options, baseAddress, endAddress) ==
    LET hits == {j \in DOMAIN options.exports : options.exports[j].address = addr}
        inSec == addr >= baseAddress /\ addr < endAddress
        mapped == IF inSec /\ hits # {}
                  THEN options.exports[CHOOSE j \in hits : \A k \in hits : k <= j].name
                  ELSE IF inSec /\ options.entryPoint = addr THEN "entry_point"
                  ELSE ""
    IN IF mapped # "" THEN mapped ELSE "sub_HEX"

\* mutant: the last function keeps its initial size 0
FunctionSize_LastUnset(sortedAddrs, i, endAddress) ==
    IF i < Len(sortedAddrs) THEN sortedAddrs[i + 1] - sortedAddrs[i] ELSE 0

\* sizes: distance to the next start, the last one up to the section end
FunctionSize(sortedAddrs, i, endAddress) ==
    IF i < Len(sortedAddrs) THEN sortedAddrs[i + 1] - sortedAddrs[i]
    ELSE endAddress - sortedAddrs[i]

detectFunctions(bytes, baseAddress, is64, options, init) ==
    LET endAddress == baseAddress + Len(bytes)
        sortedAddrs == SortAsc(StartAddrs(bytes, baseAddress, is64, options, init))
    IN [i \in 1..Len(sortedAddrs) |->
          [name |-> FunctionName(sortedAddrs[i], options, baseAddress, endAddress),
           address |-> sortedAddrs[i],
           size |-> FunctionSize(sortedAddrs, i, endAddress)]]

(***************************************************************************)
(* The worker's message handler.  Requests are drawn from bounded sets:    *)
(* code sections are concatenations of at most MaxPieces byte pieces.      *)
(***************************************************************************)
MaxPieces == 3
SectionBase == 4096

Pieces ==
    { <<85, 72, 137, 229>>, <<72, 131, 236, 40>>, <<85, 139, 236>>,
      <<204>>, <<144, 144>>, <<195>>, <<6>>,
      <<232, 0, 0, 0, 0>>, <<232, 251, 255, 255, 255>>, <<235, 1>> }

PieceSeqs == UNION {[1..n -> Pieces] : n \in 0..MaxPieces}

SectionBytes == {Concat(ps) : ps \in PieceSeqs}

OptionChoices(len) ==
    { [entryPoint |-> ep, exports |-> ex] :
        ep \in {Undefined, SectionBase + 1, SectionBase + len},
        ex \in { <<>>, <<[name |-> "f", address |-> SectionBase + 2],
                        [name |-> "g", address |-> SectionBase + len]>> } }

DetectRequests ==
    UNION { { [method |-> "detectFunctions", bytes |-> bytes,
               baseAddress |-> SectionBase, is64 |-> is64, options |-> options] :
              is64 \in BOOLEAN, options \in OptionChoices(Len(bytes)) } :
            bytes \in SectionBytes }

\* the direct-call scenario: call 0x40000a; ret; int3 x 4; mov rax, rcx; ret
DirectCallBytes == <<232, 5, 0, 0, 0, 195, 204, 204, 204, 204, 72, 137, 200, 195>>

ScenarioRequests ==
    { [method |-> "detectFunctions", bytes |-> DirectCallBytes,
       baseAddress |-> 4194304, is64 |-> TRUE,
       options |-> [entryPoint |-> e, exports |-> <<>>]] : e \in {Undefined, 4194304} }

(***************************************************************************)
(* mapInsn: the comment of one decoded instruction.  Strings are sequences *)
(* of char codes; the absent comment and the empty string are both falsy.  *)
(***************************************************************************)
NoComment == <<>>

\* str.length > 60 ? str.substring(0, 57) + '...' : str
Truncate(str) == IF Len(str) > 60 THEN SubSeq(str, 1, 57) \o <<46, 46, 46>> ELSE str

\* `${iat.lib}!${iat.func}`
IatComment(iat) == iat.lib \o <<33>> \o iat.func

\* opStr.match(/\[rip\s*([+-])\s*0x([0-9a-fA-F]+)\]/): the first RIP-relative reference
RipMatches(opStr) == {k \in DOMAIN opStr : opStr[k].t = "rip"}
RipMatch(opStr) == opStr[CHOOSE k \in RipMatches(opStr) : \A j \in RipMatches(opStr) : k <= j]

\* insn.address + insn.size + sign * disp
RipTarget(insn) ==
    insn.address + insn.size + RipMatch(insn.opStr).s * RipMatch(insn.opStr).v

RECURSIVE HexLiterals(_)
\* opStr.match(/0x([0-9a-fA-F]+)/g): every hex literal in order, displacements included
HexLiterals(opStr) ==
    IF opStr = <<>> THEN <<>>
    ELSE (IF Head(opStr).t \in {"hex", "rip"} THEN <<Head(opStr).v>> ELSE <<>>)
         \o HexLiterals(Tail(opStr))

\* the first literal that is a key of map, or Undefined
FirstHit(lits, map) ==
    IF \E k \in DOMAIN lits : lits[k] \in DOMAIN map
    THEN lits[CHOOSE k \in DOMAIN lits :
                /\ lits[k] \in DOMAIN map
                /\ \A j \in 1..(k - 1) : lits[j] \notin DOMAIN map]
    ELSE Undefined

\* the string block: RIP-relative target first, then the hex literals
StringComment(insn, strings) ==
    LET rip == IF RipMatches(insn.opStr) # {} /\ RipTarget(insn) \in DOMAIN strings
               THEN Truncate(strings[RipTarget(insn)]) ELSE NoComment
        hit == FirstHit(HexLiterals(insn.opStr), strings)
    IN IF DOMAIN strings = {} THEN NoComment
       ELSE IF rip # NoComment THEN rip
       ELSE IF hit # Undefined THEN Truncate(strings[hit])
       ELSE NoComment

\* the IAT block, entered only when the string block left no comment
IatBlockComment(insn, iat) ==
    LET rip == IF RipMatches(insn.opStr) # {} /\ RipTarget(insn) \in DOMAIN iat
               THEN IatComment(iat[RipTarget(insn)]) ELSE NoComment
        hit == FirstHit(HexLiterals(insn.opStr), iat)
    IN IF DOMAIN iat = {} THEN NoComment
       ELSE IF rip # NoComment THEN rip
       ELSE IF hit # Undefined THEN IatComment(iat[hit])
       ELSE NoComment

mapInsn(insn, strings, iat) ==
    LET c == StringComment(insn, strings)
    IN [address |-> insn.address, size |-> insn.size, mnemonic |-> insn.mnemonic,
        opStr |-> insn.opStr,
        comment |-> IF c # NoComment THEN c ELSE IatBlockComment(insn, iat)]

(***************************************************************************)
(* The instructions and maps the annotator is run on.                      *)
(***************************************************************************)
AnnotAddress == 4096
AnnotSize == 7
AnnotDisp == 256

\* "Hello", a string of 61 chars, "disp"
StringAt ==
    (AnnotAddress + AnnotSize + AnnotDisp) :> <<72, 101, 108, 108, 111>>
    @@ 8192 :> [i \in 1..61 |-> 97]
    @@ AnnotDisp :> <<100, 105, 115, 112>>

IatAt ==
    (AnnotAddress + AnnotSize + AnnotDisp) :> [lib |-> <<107>>, func |-> <<102>>]
    @@ 8192 :> [lib |-> <<107>>, func |-> <<103>>]
    @@ (AnnotAddress + AnnotSize - AnnotDisp) :> [lib |-> <<108>>, func |-> <<104>>]

Restrict(map, keys) == [k \in keys |-> map[k]]

ConfigChoices ==
    { [stringEntries |-> Restrict(StringAt, sk), iatEntries |-> Restrict(IatAt, ik)] :
        sk \in SUBSET DOMAIN StringAt, ik \in SUBSET DOMAIN IatAt }

AnnotTokens == {Txt, Hex(8192), Hex(AnnotAddress + AnnotSize + AnnotDisp),
                Rip(1, AnnotDisp), Rip(-1, AnnotDisp)}

RECURSIVE OpStrsUpTo(_)
OpStrsUpTo(n) ==
    IF n = 0 THEN {<<>>} ELSE OpStrsUpTo(n - 1) \cup [1..n -> AnnotTokens]

MaxTokens == 2

DisassembleRequests ==
    { [method |-> "disassemble",
       insns |-> <<Insn(AnnotAddress, AnnotSize, "lea", op)>>] : op \in OpStrsUpTo(MaxTokens) }

NoResult == [done |-> FALSE, result |-> <<>>]

MaxRequests == 2

\* case 'init'
OnInit ==
    /\ initialized' = TRUE
    /\ UNCHANGED <<stringMap, iatMap, wreq, wres, wlog>>
    /\ UNCHANGED notWorker

\* case 'configure': stringMap = new Map(args.stringEntries), iatMap likewise
OnConfigure ==
    /\ \E args \in ConfigChoices :
          /\ stringMap' = args.stringEntries
          /\ iatMap' = args.iatEntries
    /\ UNCHANGED <<initialized, wreq, wres, wlog>>
    /\ UNCHANGED notWorker

\* case 'detectFunctions': the request wreq is answered, at most MaxRequests times
OnDetectFunctions ==
    /\ wreq.method = "detectFunctions"
    /\ Len(wlog) < MaxRequests
    /\ LET result == detectFunctions(wreq.bytes, wreq.baseAddress, wreq.is64,
                                     wreq.options, initialized)
       IN /\ wres' = [done |-> TRUE, result |-> result]
          /\ wlog' = Append(wlog, [ready |-> initialized, result |-> result])
    /\ UNCHANGED <<initialized, stringMap, iatMap, wreq>>
    /\ UNCHANGED notWorker

\* case 'disassemble': every instruction the decoder returned (wreq.insns)
\* goes through mapInsn
OnDisassemble ==
    /\ wreq.method = "disassemble"
    /\ Len(wlog) < MaxRequests
    /\ LET result == [i \in DOMAIN wreq.insns |-> mapInsn(wreq.insns[i], stringMap, iatMap)]
       IN /\ wres' = [done |-> TRUE, result |-> result]
          /\ wlog' = Append(wlog, [ready |-> initialized, result |-> result])
    /\ UNCHANGED <<initialized, stringMap, iatMap, wreq>>
    /\ UNCHANGED notWorker

\* the worker after construction, with one detectFunctions request posted
WorkerInit ==
    /\ initialized = FALSE
    /\ stringMap = EmptyMap
    /\ iatMap = EmptyMap
    /\ wreq \in DetectRequests \cup ScenarioRequests
    /\ wres = NoResult
    /\ wlog = <<>>

\* the worker after construction, with one disassemble request posted
AnnotInit ==
    /\ initialized = FALSE
    /\ stringMap = EmptyMap
    /\ iatMap = EmptyMap
    /\ wreq \in DisassembleRequests
    /\ wres = NoResult
    /\ wlog = <<>>

WorkerIdle ==
    /\ initialized = FALSE
    /\ stringMap = EmptyMap
    /\ iatMap = EmptyMap
    /\ wreq = [method |-> "none"]
    /\ wres = NoResult
    /\ wlog = <<>>

WorkerNext == OnInit \/ OnDetectFunctions

AnnotNext == OnConfigure \/ OnDisassemble

(***************************************************************************)
(* Function lists (C1).                                                    *)
(***************************************************************************)
IsDetect == wreq.method = "detectFunctions" /\ wres.done
SecEnd == wreq.baseAddress + Len(wreq.bytes)

\* ascending, inside the section, each size the distance to the next start,
\* the last one ending at the section end
FunctionsChained ==
    LET fns == wres.result
    IN /\ \A i \in DOMAIN fns :
            /\ fns[i].address >= wreq.baseAddress
            /\ fns[i].address < SecEnd
            /\ fns[i].size > 0
       /\ \A i \in 1..(Len(fns) - 1) :
            /\ fns[i].address < fns[i + 1].address
            /\ fns[i].address + fns[i].size = fns[i + 1].address
       /\ fns # <<>> => fns[Len(fns)].address + fns[Len(fns)].size = SecEnd

\* every address of [from, SecEnd) lies in exactly one function's range
CoveredOnce(from) ==
    LET fns == wres.result
    IN \A a \in from..(SecEnd - 1) :
         Cardinality({i \in DOMAIN fns :
            fns[i].address <= a /\ a < fns[i].address + fns[i].size}) = 1

\* C1 as stated: the function list is chained and its ranges tile the whole
\* section [base, base+len) with no overlap and no gap.
C1_TilesWholeSection ==
    IsDetect => FunctionsChained /\ CoveredOnce(wreq.baseAddress)

\* C1, amended: the function list is chained (strictly ascending addresses
\* inside the section, size = distance to the next start, last one ends at the
\* section end) and the ranges tile [first start, base+len) with no overlap
\* and no gap; no address before the first start lies in a function, and the
\* list is empty when no start was found.
C1_TilesFromFirstStart ==
    IsDetect =>
      LET fns == wres.result
      IN /\ FunctionsChained
         /\ fns # <<>> => CoveredOnce(fns[1].address)
         /\ \A a \in wreq.baseAddress..(SecEnd - 1) : \A i \in DOMAIN fns :
              (fns # <<>> /\ a < fns[1].address) =>
                 ~(fns[i].address <= a /\ a < fns[i].address + fns[i].size)

\* a list of at least two functions whose first start is after the section base,
\* one of them found by the call-target pass alone
C1_Witness ==
    /\ IsDetect /\ initialized
    /\ Len(wres.result) >= 2
    /\ wres.result[1].address > wreq.baseAddress
    /\ \E i \in DOMAIN wres.result :
         wres.result[i].address \notin
            StartAddrs(wreq.bytes, wreq.baseAddress, wreq.is64, wreq.options, FALSE)

(***************************************************************************)
(* buildCFG (cfg.ts).  Block ids are 0-based: block id is blocks[id + 1].  *)
(***************************************************************************)
\* mnemonics for which mn.startsWith('j') holds
JMnemonics ==
    {"jmp", "je", "jne", "jz", "jnz", "jg", "jge", "jl", "jle", "ja", "jae", "jb",
     "jbe", "jo", "jno", "js", "jns", "jp", "jnp", "jcxz", "jecxz", "jrcxz"}

StartsWithJ(mn) == mn \in JMnemonics

IsRet(mn) == mn = "ret" \/ mn = "retn"

FuncEnd(func) == func.address + func.size

RECURSIVE FuncInsns(_, _)
\* the function's instructions: the scan stops at the first one at or past the end
FuncInsns(func, instructions) ==
    IF instructions = <<>> THEN <<>>
    ELSE LET insn == Head(instructions)
         IN IF insn.address >= FuncEnd(func) THEN <<>>
            ELSE IF insn.address >= func.address
                 THEN <<insn>> \o FuncInsns(func, Tail(instructions))
                 ELSE FuncInsns(func, Tail(instructions))

\* mutant: a jump's target is not made a leader
InsnLeaders_NoTarget(func, funcInsns, idx) ==
    LET mn == funcInsns[idx].mnemonic
        next == IF idx + 1 <= Len(funcInsns) THEN {funcInsns[idx + 1].address} ELSE {}
    IN IF mn = "call" THEN {}
       ELSE IF StartsWithJ(mn) \/ IsRet(mn) THEN next
       ELSE {}

\* the leaders one instruction (at index idx of funcInsns) contributes
InsnLeaders(func, funcInsns, idx) ==
    LET insn == funcInsns[idx]
        mn == insn.mnemonic
        next == IF idx + 1 <= Len(funcInsns) THEN {funcInsns[idx + 1].address} ELSE {}
        target == IF DirectMatch(insn.opStr)
                     /\ DirectTarget(insn.opStr) >= func.address
                     /\ DirectTarget(insn.opStr) < FuncEnd(func)
                  THEN {DirectTarget(insn.opStr)} ELSE {}
    IN IF mn = "call" THEN {}
       ELSE IF StartsWithJ(mn) THEN target \cup next
       ELSE IF IsRet(mn) THEN next
       ELSE {}

\* addresses of function instructions that the xref map lists as branch/jmp targets
XrefLeaders(funcInsns, xrefMap) ==
    {funcInsns[i].address : i \in
        {j \in DOMAIN funcInsns :
            /\ funcInsns[j].address \in DOMAIN xrefMap
            /\ \E k \in DOMAIN xrefMap[funcInsns[j].address] :
                 xrefMap[funcInsns[j].address][k].type \in {"branch", "jmp"}}}

Leaders(func, funcInsns, xrefMap) ==
    {func.address}
    \cup UNION {InsnLeaders(func, funcInsns, idx) : idx \in DOMAIN funcInsns}
    \cup XrefLeaders(funcInsns, xrefMap)

\* the instructions with leaderAddr <= address < nextLeaderAddr
BlockInsns(funcInsns, leaderAddr, nextLeaderAddr) ==
    SelectSeq(funcInsns, LAMBDA insn :
        insn.address >= leaderAddr /\ insn.address < nextLeaderAddr)

RECURSIVE BuildBlocks(_, _, _, _)
\* the block loop from leader index li on; acc = [blocks, addrToBlock]
BuildBlocks(func, funcInsns, sortedLeaders, acc) ==
    IF sortedLeaders = <<>> THEN acc
    ELSE LET leaderAddr == Head(sortedLeaders)
             nextLeaderAddr == IF Len(sortedLeaders) > 1 THEN sortedLeaders[2]
                               ELSE FuncEnd(func)
             blockInsns == BlockInsns(funcInsns, leaderAddr, nextLeaderAddr)
             blockId == Len(acc.blocks)
             block == [id |-> blockId,
                       startAddr |-> blockInsns[1].address,
                       endAddr |-> blockInsns[Len(blockInsns)].address
                                   + blockInsns[Len(blockInsns)].size,
                       insns |-> blockInsns,
                       succs |-> <<>>,
                       preds |-> <<>>]
         IN IF blockInsns = <<>>
            THEN BuildBlocks(func, funcInsns, Tail(sortedLeaders), acc)
            ELSE BuildBlocks(func, funcInsns, Tail(sortedLeaders),
                    [blocks |-> Append(acc.blocks, block),
                     addrToBlock |-> acc.addrToBlock @@ (leaderAddr :> blockId)])

\* mutant: the predecessor list of the target is not updated
AddEdge_NoPred(blocks, from, to) ==
    [blocks EXCEPT ![from + 1].succs = Append(@, to)]

\* block.succs.push(to); blocks[to].preds.push(block.id)
AddEdge(blocks, from, to) ==
    LET b1 == [blocks EXCEPT ![from + 1].succs = Append(@, to)]
    IN [b1 EXCEPT ![to + 1].preds = Append(@, from)]

\* addrToBlock.get(addr), then the edge when the block is known
EdgeTo(blocks, addrToBlock, from, addr) ==
    IF addr \in DOMAIN addrToBlock THEN AddEdge(blocks, from, addrToBlock[addr])
    ELSE blocks

\* mutant: a conditional branch to its own fallthrough gets one edge
BlockEdges_SingleEdge(blocks, addrToBlock, id) ==
    LET block == blocks[id + 1]
        lastInsn == block.insns[Len(block.insns)]
        mn == lastInsn.mnemonic
        withTarget == IF DirectMatch(lastInsn.opStr)
                      THEN EdgeTo(blocks, addrToBlock, id, DirectTarget(lastInsn.opStr))
                      ELSE blocks
    IN IF IsRet(mn) THEN blocks
       ELSE IF mn = "jmp" THEN withTarget
       ELSE IF StartsWithJ(mn)
            THEN IF DirectMatch(lastInsn.opStr) /\ DirectTarget(lastInsn.opStr) = block.endAddr
                 THEN withTarget
                 ELSE EdgeTo(withTarget, addrToBlock, id, block.endAddr)
       ELSE EdgeTo(blocks, addrToBlock, id, block.endAddr)

\* the edges of one block, decided by its last instruction
BlockEdges(blocks, addrToBlock, id) ==
    LET block == blocks[id + 1]
        lastInsn == block.insns[Len(block.insns)]
        mn == lastInsn.mnemonic
        withTarget == IF DirectMatch(lastInsn.opStr)
                      THEN EdgeTo(blocks, addrToBlock, id, DirectTarget(lastInsn.opStr))
                      ELSE blocks
    IN IF IsRet(mn) THEN blocks
       ELSE IF mn = "jmp" THEN withTarget
       ELSE IF StartsWithJ(mn) THEN EdgeTo(withTarget, addrToBlock, id, block.endAddr)
       ELSE EdgeTo(blocks, addrToBlock, id, block.endAddr)

RECURSIVE ComputeEdges(_, _, _)
\* for (const block of blocks), from block id on
ComputeEdges(blocks, addrToBlock, id) ==
    IF id >= Len(blocks) THEN blocks
    ELSE ComputeEdges(BlockEdges(blocks, addrToBlock, id), addrToBlock, id + 1)


buildCFG(func, instructions, xrefMap) ==
    LET funcInsns == FuncInsns(func, instructions)
        sortedLeaders == SortAsc(Leaders(func, funcInsns, xrefMap))
        built == BuildBlocks(func, funcInsns, sortedLeaders,
                             [blocks |-> <<>>, addrToBlock |-> EmptyMap])
    IN IF funcInsns = <<>> THEN <<>>
       ELSE ComputeEdges(built.blocks, built.addrToBlock, 0)

(***************************************************************************)
(* detectLoops (cfg.ts).                                                   *)
(***************************************************************************)
RECURSIVE VisitSuccs(_, _, _, _)
\* the loop over blocks[id].succs; st = [layers, queue, visited]
VisitSuccs(succs, layer, st, k) ==
    IF k > Len(succs) THEN st
    ELSE LET succ == succs[k]
             l1 == IF succ \in DOMAIN st.layers THEN st.layers
                   ELSE st.layers @@ (succ :> layer + 1)
             q1 == IF succ \notin st.visited THEN Append(st.queue, succ) ELSE st.queue
         IN VisitSuccs(succs, layer, [st EXCEPT !.layers = l1, !.queue = q1], k + 1)

RECURSIVE BfsLayers(_, _)
\* while (queue.length > 0)
BfsLayers(blocks, st) ==
    IF st.queue = <<>> THEN st.layers
    ELSE LET id == Head(st.queue)
             rest == [st EXCEPT !.queue = Tail(st.queue)]
         IN IF id \in st.visited THEN BfsLayers(blocks, rest)
            ELSE BfsLayers(blocks,
                    VisitSuccs(blocks[id + 1].succs, st.layers[id],
                               [rest EXCEPT !.visited = @ \cup {id}], 1))

\* layers of the blocks reached from block 0
LayerMap(blocks) ==
    BfsLayers(blocks, [layers |-> (0 :> 0), queue |-> <<0>>, visited |-> {}])

\* layers.get(id) ?? 0
LayerOrZero(layers, id) == IF id \in DOMAIN layers THEN layers[id] ELSE 0

RECURSIVE CollectLoops(_, _, _, _, _)
\* the back-edge scan at block index bi (1-based), successor index k
CollectLoops(blocks, layers, bi, k, loops) ==
    IF bi > Len(blocks) THEN loops
    ELSE IF k > Len(blocks[bi].succs) THEN CollectLoops(blocks, layers, bi + 1, 1, loops)
    ELSE LET block == blocks[bi]
             succId == block.succs[k]
             header == blocks[succId + 1]
             isBack == LayerOrZero(layers, succId) <= LayerOrZero(layers, block.id)
             seen == \E j \in DOMAIN loops : loops[j].headerAddr = header.startAddr
         IN IF isBack /\ ~seen
            THEN CollectLoops(blocks, layers, bi, k + 1,
                    Append(loops, [headerAddr |-> header.startAddr,
                                   backEdgeFromAddr |-> block.endAddr,
                                   depth |-> 0]))
            ELSE CollectLoops(blocks, layers, bi, k + 1, loops)

RECURSIVE SortLoops(_)
\* loops.sort((a, b) => a.headerAddr - b.headerAddr); header addresses are distinct
SortLoops(loops) ==
    IF loops = <<>> THEN <<>>
    ELSE LET m == CHOOSE i \in DOMAIN loops :
                    \A j \in DOMAIN loops : loops[i].headerAddr <= loops[j].headerAddr
         IN <<loops[m]>> \o
            SortLoops([j \in 1..(Len(loops) - 1) |-> IF j < m THEN loops[j] ELSE loops[j + 1]])

\* nesting depth: the other loops whose [headerAddr, backEdgeFromAddr) holds the header
LoopDepth(loops, i) ==
    Cardinality({j \in DOMAIN loops :
        /\ j # i
        /\ loops[i].headerAddr >= loops[j].headerAddr
        /\ loops[i].headerAddr < loops[j].backEdgeFromAddr})

detectLoops(blocks) ==
    IF blocks = <<>> THEN <<>>
    ELSE LET sorted == SortLoops(CollectLoops(blocks, LayerMap(blocks), 1, 1, <<>>))
         IN [i \in DOMAIN sorted |-> [sorted[i] EXCEPT !.depth = LoopDepth(sorted, i)]]

(***************************************************************************)
(* The CFG pipeline on one function: an instruction stream and an xref map *)
(* drawn from bounded sets, then buildCFG, then detectLoops.               *)
(***************************************************************************)
MaxInsns == 3
FnBase == 16

\* gap of undecoded bytes before the instruction, and its size
Layouts == { [gap |-> 0, size |-> 1], [gap |-> 0, size |-> 2], [gap |-> 1, size |-> 1] }

BranchTargets == FnBase..(FnBase + 2)

Shapes ==
    { [mnemonic |-> "mov", opStr |-> <<Txt>>],
      [mnemonic |-> "ret", opStr |-> <<>>],
      [mnemonic |-> "call", opStr |-> <<Hex(FnBase)>>],
      [mnemonic |-> "jmp", opStr |-> <<Txt>>] }
    \cup { [mnemonic |-> mn, opStr |-> <<Hex(t)>>] :
             mn \in {"jmp", "jne"}, t \in BranchTargets }

RECURSIVE Lay(_, _, _, _)
\* the stream with the chosen layouts and shapes, laid out from address addr
Lay(layouts, shapes, k, addr) ==
    IF k > Len(layouts) THEN <<>>
    ELSE LET a == addr + layouts[k].gap
         IN <<Insn(a, layouts[k].size, shapes[k].mnemonic, shapes[k].opStr)>>
            \o Lay(layouts, shapes, k + 1, a + layouts[k].size)

\* the streams of exactly n instructions
StreamsOf(n) ==
    { Lay(ls, ss, 1, FnBase) : ls \in [1..n -> Layouts], ss \in [1..n -> Shapes] }

RECURSIVE StreamsUpTo(_)
StreamsUpTo(n) == IF n = 0 THEN StreamsOf(0) ELSE StreamsUpTo(n - 1) \cup StreamsOf(n)

Streams == StreamsUpTo(MaxInsns)

FuncChoices == { [name |-> "sub_HEX", address |-> FnBase, size |-> sz] : sz \in {3, 6} }

XrefMapChoices ==
    { EmptyMap,
      (FnBase + 1) :> <<[from |-> FnBase + 40, type |-> "call"],
                        [from |-> FnBase + 50, type |-> "branch"]>> }

CfgInputs ==
    { [func |-> f, instructions |-> is, xrefMap |-> xm] :
        f \in FuncChoices, is \in Streams, xm \in XrefMapChoices }

CfgInit ==
    /\ cfgIn \in CfgInputs
    /\ cfgPc = "start"
    /\ cfgBlocks = <<>>
    /\ cfgLoops = <<>>

CfgIdle ==
    /\ cfgIn = [func |-> [name |-> "", address |-> 0, size |-> 0],
                instructions |-> <<>>, xrefMap |-> EmptyMap]
    /\ cfgPc = "idle"
    /\ cfgBlocks = <<>>
    /\ cfgLoops = <<>>

BuildCFG ==
    /\ cfgPc = "start"
    /\ cfgBlocks' = buildCFG(cfgIn.func, cfgIn.instructions, cfgIn.xrefMap)
    /\ cfgPc' = "built"
    /\ UNCHANGED <<cfgIn, cfgLoops>>
    /\ UNCHANGED notCfg

DetectLoops ==
    /\ cfgPc = "built"
    /\ cfgLoops' = detectLoops(cfgBlocks)
    /\ cfgPc' = "loops"
    /\ UNCHANGED <<cfgIn, cfgBlocks>>
    /\ UNCHANGED notCfg

CfgNext == BuildCFG \/ DetectLoops

(***************************************************************************)
(* The PE parser (parser.ts).  An image is [len, data]: data maps the      *)
(* offsets of its non-zero bytes to their values.  A DataView read of w    *)
(* bytes at offset o throws a RangeError unless o + w <= len.              *)
(***************************************************************************)
IMAGE_DOS_SIGNATURE == 23117
IMAGE_NT_SIGNATURE == 17744
IMAGE_NT_OPTIONAL_HDR32_MAGIC == 267
IMAGE_NT_OPTIONAL_HDR64_MAGIC == 523
IMAGE_DIRECTORY_ENTRY_EXPORT == 0
IMAGE_DIRECTORY_ENTRY_IMPORT == 1

InBounds(view, o, w) == o >= 0 /\ o + w <= view.len

getUint8(view, o) == IF o \in DOMAIN view.data THEN view.data[o] ELSE 0
getUint16(view, o) == getUint8(view, o) + 256 * getUint8(view, o + 1)
\* little-endian; the images drawn keep every 32-bit field below 2^31
getUint32(view, o) == getUint16(view, o) + 65536 * getUint16(view, o + 2)

RECURSIVE CStringFrom(_, _, _, _)
CStringFrom(view, offset, i, maxLength) ==
    IF i >= maxLength \/ offset + i >= view.len \/ getUint8(view, offset + i) = 0
    THEN <<>>
    ELSE <<getUint8(view, offset + i)>> \o CStringFrom(view, offset, i + 1, maxLength)

\* the char codes up to the first NUL, the end of the image or 1024 chars
readCString(view, offset) == CStringFrom(view, offset, 0, 1024)

RECURSIVE RvaFrom_InclusiveEnd(_, _, _)
\* the section end taken as inclusive
RvaFrom_InclusiveEnd(rva, sections, k) ==
    IF k > Len(sections) THEN rva
    ELSE IF rva >= sections[k].virtualAddress
            /\ rva <= sections[k].virtualAddress + sections[k].virtualSize
         THEN sections[k].pointerToRawData + (rva - sections[k].virtualAddress)
         ELSE RvaFrom_InclusiveEnd(rva, sections, k + 1)

RECURSIVE RvaFrom(_, _, _)
RvaFrom(rva, sections, k) ==
    IF k > Len(sections) THEN rva
    ELSE IF rva >= sections[k].virtualAddress
            /\ rva < sections[k].virtualAddress + sections[k].virtualSize
         THEN sections[k].pointerToRawData + (rva - sections[k].virtualAddress)
         ELSE RvaFrom(rva, sections, k + 1)

\* the first section whose virtual range holds the RVA decides; else the RVA itself
rvaToFileOffset(rva, sections) == RvaFrom(rva, sections, 1)

Threw(kind) == [ok |-> FALSE, error |-> kind]

parseDOSHeader(view) ==
    IF ~InBounds(view, 0, 2) THEN Threw("RangeError")
    ELSE IF getUint16(view, 0) # IMAGE_DOS_SIGNATURE THEN Threw("Invalid DOS signature")
    ELSE IF ~InBounds(view, 60, 4) THEN Threw("RangeError")
    ELSE [ok |-> TRUE, e_magic |-> getUint16(view, 0), e_lfanew |-> getUint32(view, 60)]

\* the fields read downstream; the seven reads span offset .. offset + 20
parseCOFFHeader(view, offset) ==
    IF ~InBounds(view, offset, 20) THEN Threw("RangeError")
    ELSE [ok |-> TRUE,
          numberOfSections |-> getUint16(view, offset + 2),
          sizeOfOptionalHeader |-> getUint16(view, offset + 16)]

\* the reads span offset .. offset + 96
parseOptionalHeader32(view, offset) ==
    IF ~InBounds(view, offset, 96) THEN Threw("RangeError")
    ELSE [ok |-> TRUE,
          magic |-> getUint16(view, offset),
          addressOfEntryPoint |-> getUint32(view, offset + 16),
          imageBase |-> getUint32(view, offset + 28),
          numberOfRvaAndSizes |-> getUint32(view, offset + 92)]

\* the reads span offset .. offset + 112; the images drawn keep imageBase below 2^31
parseOptionalHeader64(view, offset) ==
    IF ~InBounds(view, offset, 112) THEN Threw("RangeError")
    ELSE [ok |-> TRUE,
          magic |-> getUint16(view, offset),
          addressOfEntryPoint |-> getUint32(view, offset + 16),
          imageBase |-> getUint32(view, offset + 24),
          numberOfRvaAndSizes |-> getUint32(view, offset + 108)]

\* count entries of 8 bytes, read one after the other without a bounds check
parseDataDirectories(view, offset, count) ==
    IF count > 0 /\ ~InBounds(view, offset, 8 * count) THEN Threw("RangeError")
    ELSE [ok |-> TRUE,
          list |-> [i \in 1..count |->
                      [virtualAddress |-> getUint32(view, offset + (i - 1) * 8),
                       size |-> getUint32(view, offset + (i - 1) * 8 + 4)]]]

RECURSIVE NameBytes(_, _, _)
\* the non-zero bytes among the 8 name bytes
NameBytes(view, sectionOffset, j) ==
    IF j >= 8 THEN <<>>
    ELSE (IF getUint8(view, sectionOffset + j) # 0
          THEN <<getUint8(view, sectionOffset + j)>> ELSE <<>>)
         \o NameBytes(view, sectionOffset, j + 1)

SectionAt(view, sectionOffset) ==
    [name |-> NameBytes(view, sectionOffset, 0),
     virtualSize |-> getUint32(view, sectionOffset + 8),
     virtualAddress |-> getUint32(view, sectionOffset + 12),
     sizeOfRawData |-> getUint32(view, sectionOffset + 16),
     pointerToRawData |-> getUint32(view, sectionOffset + 20),
     characteristics |-> getUint32(view, sectionOffset + 36)]

\* count headers of 40 bytes, read one after the other; nothing is validated
parseSectionHeaders(view, offset, count) ==
    IF count > 0 /\ ~InBounds(view, offset, 40 * count) THEN Threw("RangeError")
    ELSE [ok |-> TRUE,
          list |-> [i \in 1..count |-> SectionAt(view, offset + (i - 1) * 40)]]

\* a 64-bit value too large to be an RVA of any section of the images drawn
BeyondAnySection == 1073741824

\* one thunk of 4 (PE32) or 8 (PE32+) bytes:
\* zero (value 0n), flag (value & ordinal flag), ordinal (value & 0xFFFF), rva (Number(value))
ThunkAt(view, thunkOffset, is64) ==
    LET top == getUint8(view, thunkOffset + (IF is64 THEN 7 ELSE 3))
        low31 == getUint16(view, thunkOffset)
                 + 65536 * (getUint8(view, thunkOffset + 2)
                            + 256 * (getUint8(view, thunkOffset + 3) % 128))
        upper == IF is64
                 THEN {getUint8(view, thunkOffset + k) : k \in 4..7} # {0}
                 ELSE FALSE
    IN [zero |-> \A k \in 0..(IF is64 THEN 7 ELSE 3) : getUint8(view, thunkOffset + k) = 0,
        flag |-> top >= 128,
        ordinal |-> getUint16(view, thunkOffset),
        rva |-> IF upper THEN BeyondAnySection
                ELSE low31 + (IF is64 /\ getUint8(view, thunkOffset + 3) >= 128
                              THEN BeyondAnySection ELSE 0)]

OrdinalName(n) == [kind |-> "ordinal", ordinal |-> n, chars |-> <<>>]
CharsName(cs) == [kind |-> "name", ordinal |-> 0, chars |-> cs]

RECURSIVE ThunkWalk(_, _, _, _, _)
\* while (thunkOffset + thunkSize <= view.byteLength)
ThunkWalk(view, sections, is64, thunkOffset, functions) ==
    LET thunkSize == IF is64 THEN 8 ELSE 4 IN
    IF ~(thunkOffset + thunkSize <= view.len) THEN [ok |-> TRUE, list |-> functions]
    ELSE IF ~InBounds(view, thunkOffset, thunkSize) THEN Threw("RangeError")
    ELSE LET th == ThunkAt(view, thunkOffset, is64)
             nameTableOffset == rvaToFileOffset(th.rva, sections)
             pushed == IF th.flag THEN Append(functions, OrdinalName(th.ordinal))
                       ELSE IF nameTableOffset + 2 < view.len
                            THEN Append(functions,
                                        CharsName(readCString(view, nameTableOffset + 2)))
                            ELSE functions
         IN IF th.zero THEN [ok |-> TRUE, list |-> functions]
            ELSE ThunkWalk(view, sections, is64, thunkOffset + thunkSize, pushed)

RECURSIVE DescriptorWalk(_, _, _, _, _)
\* while (descriptorOffset + descriptorSize <= view.byteLength)
DescriptorWalk(view, sections, is64, descriptorOffset, imports) ==
    IF ~(descriptorOffset + 20 <= view.len) THEN [ok |-> TRUE, list |-> imports]
    ELSE IF ~InBounds(view, descriptorOffset, 20) THEN Threw("RangeError")
    ELSE LET originalFirstThunk == getUint32(view, descriptorOffset)
             nameRVA == getUint32(view, descriptorOffset + 12)
             firstThunk == getUint32(view, descriptorOffset + 16)
             nameOffset == rvaToFileOffset(nameRVA, sections)
             thunkRVA == IF originalFirstThunk # 0 THEN originalFirstThunk ELSE firstThunk
             walked == IF thunkRVA # 0
                       THEN ThunkWalk(view, sections, is64,
                                      rvaToFileOffset(thunkRVA, sections), <<>>)
                       ELSE [ok |-> TRUE, list |-> <<>>]
         IN IF originalFirstThunk = 0 /\ nameRVA = 0 /\ firstThunk = 0
            THEN [ok |-> TRUE, list |-> imports]
            ELSE IF nameOffset >= view.len
            THEN DescriptorWalk(view, sections, is64, descriptorOffset + 20, imports)
            ELSE IF ~walked.ok THEN walked
            ELSE DescriptorWalk(view, sections, is64, descriptorOffset + 20,
                    Append(imports, [libraryName |-> readCString(view, nameOffset),
                                     functions |-> walked.list]))

parseImports(view, importDir, sections, is64) ==
    IF importDir.virtualAddress = 0 \/ importDir.size = 0 THEN [ok |-> TRUE, list |-> <<>>]
    ELSE IF rvaToFileOffset(importDir.virtualAddress, sections) >= view.len
    THEN [ok |-> TRUE, list |-> <<>>]
    ELSE DescriptorWalk(view, sections, is64,
                        rvaToFileOffset(importDir.virtualAddress, sections), <<>>)

RECURSIVE ExportWalk(_, _, _, _, _)
\* for (let i = 0; i < numberOfNames; i++); t holds the table offsets
ExportWalk(view, sections, t, i, exports) ==
    IF i >= t.numberOfNames THEN [ok |-> TRUE, list |-> exports]
    ELSE LET namePointerPos == t.namePointerOffset + i * 4
             ordinalPos == t.ordinalTableOffset + i * 2
             ordinal == getUint16(view, ordinalPos)
             nameOffset == rvaToFileOffset(getUint32(view, namePointerPos), sections)
             addressPos == t.addressTableOffset + ordinal * 4
             skip == ExportWalk(view, sections, t, i + 1, exports)
         IN IF namePointerPos + 4 > view.len \/ ordinalPos + 2 > view.len THEN skip
            ELSE IF ~InBounds(view, namePointerPos, 4) \/ ~InBounds(view, ordinalPos, 2)
            THEN Threw("RangeError")
            ELSE IF nameOffset >= view.len THEN skip
            ELSE IF addressPos + 4 > view.len THEN skip
            ELSE IF ~InBounds(view, addressPos, 4) THEN Threw("RangeError")
            ELSE ExportWalk(view, sections, t, i + 1,
                    Append(exports, [name |-> readCString(view, nameOffset),
                                     ordinal |-> ordinal,
                                     address |-> getUint32(view, addressPos)]))

parseExports(view, exportDir, sections) ==
    LET exportTableOffset == rvaToFileOffset(exportDir.virtualAddress, sections)
    IN IF exportDir.virtualAddress = 0 \/ exportDir.size = 0 THEN [ok |-> TRUE, list |-> <<>>]
       ELSE IF exportTableOffset + 40 > view.len THEN [ok |-> TRUE, list |-> <<>>]
       ELSE IF ~InBounds(view, exportTableOffset + 24, 16) THEN Threw("RangeError")
       ELSE ExportWalk(view, sections,
               [numberOfNames |-> getUint32(view, exportTableOffset + 24),
                addressTableOffset |->
                    rvaToFileOffset(getUint32(view, exportTableOffset + 28), sections),
                namePointerOffset |->
                    rvaToFileOffset(getUint32(view, exportTableOffset + 32), sections),
                ordinalTableOffset |->
                    rvaToFileOffset(getUint32(view, exportTableOffset + 36), sections)],
               0, <<>>)

Printable(b) == b >= 32 /\ b <= 126

RECURSIVE RunOf(_, _, _)
\* the printable bytes from i up to a NUL, a non-printable byte or end
RunOf(view, i, end) ==
    IF i < end /\ Printable(getUint8(view, i))
    THEN <<getUint8(view, i)>> \o RunOf(view, i + 1, end)
    ELSE <<>>

RECURSIVE ScanStrings(_, _, _, _, _)
\* while (i < end): a run of at least 4 printable bytes is a string
ScanStrings(view, sec, i, end, strings) ==
    IF i >= end THEN strings
    ELSE IF Printable(getUint8(view, i))
         THEN LET chars == RunOf(view, i, end)
                  rva == sec.virtualAddress + (i - sec.pointerToRawData)
              IN ScanStrings(view, sec, i + Len(chars) + 1, end,
                    IF Len(chars) >= 4 THEN (rva :> chars) @@ strings ELSE strings)
         ELSE ScanStrings(view, sec, i + 1, end, strings)

\* ".rdata", ".data", ".rodata" as char codes
StringSectionNames ==
    { <<46, 114, 100, 97, 116, 97>>, <<46, 100, 97, 116, 97>>,
      <<46, 114, 111, 100, 97, 116, 97>> }

extractStrings(view, sections) ==
    LET hits == {k \in DOMAIN sections : sections[k].name \in StringSectionNames}
        sec == sections[CHOOSE k \in hits : \A j \in hits : k <= j]
    IN IF hits = {} THEN EmptyMap
       ELSE ScanStrings(view, sec, sec.pointerToRawData,
                        Min(sec.pointerToRawData + sec.sizeOfRawData, view.len), EmptyMap)

\* dataDirectories[index] || { virtualAddress: 0, size: 0 }
DirOrEmpty(dirs, index) ==
    IF index + 1 \in DOMAIN dirs THEN dirs[index + 1] ELSE [virtualAddress |-> 0, size |-> 0]

parsePE(view) ==
    LET dosHeader == parseDOSHeader(view)
        peOffset == dosHeader.e_lfanew
        coffOffset == peOffset + 4
        coffHeader == parseCOFFHeader(view, coffOffset)
        optionalHeaderOffset == coffOffset + 20
        magic == getUint16(view, optionalHeaderOffset)
        is64 == magic = IMAGE_NT_OPTIONAL_HDR64_MAGIC
        optionalHeader == IF is64 THEN parseOptionalHeader64(view, optionalHeaderOffset)
                          ELSE parseOptionalHeader32(view, optionalHeaderOffset)
        dataDirectoriesOffset == optionalHeaderOffset + (IF is64 THEN 112 ELSE 96)
        dataDirectories == parseDataDirectories(view, dataDirectoriesOffset,
                                                optionalHeader.numberOfRvaAndSizes)
        sections == parseSectionHeaders(view,
                        optionalHeaderOffset + coffHeader.sizeOfOptionalHeader,
                        coffHeader.numberOfSections)
        imports == parseImports(view,
                        DirOrEmpty(dataDirectories.list, IMAGE_DIRECTORY_ENTRY_IMPORT),
                        sections.list, is64)
        exports == parseExports(view,
                        DirOrEmpty(dataDirectories.list, IMAGE_DIRECTORY_ENTRY_EXPORT),
                        sections.list)
    IN IF ~dosHeader.ok THEN dosHeader
       ELSE IF peOffset + 4 > view.len THEN Threw("Invalid PE offset")
       ELSE IF ~InBounds(view, peOffset, 4) THEN Threw("RangeError")
       ELSE IF getUint32(view, peOffset) # IMAGE_NT_SIGNATURE
       THEN Threw("Invalid PE signature")
       ELSE IF ~coffHeader.ok THEN coffHeader
       ELSE IF ~InBounds(view, optionalHeaderOffset, 2) THEN Threw("RangeError")
       ELSE IF ~is64 /\ magic # IMAGE_NT_OPTIONAL_HDR32_MAGIC
       THEN Threw("Invalid optional header magic")
       ELSE IF ~optionalHeader.ok THEN optionalHeader
       ELSE IF ~dataDirectories.ok THEN dataDirectories
       ELSE IF ~sections.ok THEN sections
       ELSE IF ~imports.ok THEN imports
       ELSE IF ~exports.ok THEN exports
       ELSE [ok |-> TRUE,
             is64 |-> is64,
             dosHeader |-> dosHeader,
             coffHeader |-> coffHeader,
             optionalHeader |-> optionalHeader,
             dataDirectories |-> dataDirectories.list,
             sections |-> sections.list,
             imports |-> imports.list,
             exports |-> exports.list,
             strings |-> extractStrings(view, sections.list)]

(***************************************************************************)
(* buildIATLookup (disasm/operands.ts): reads imp.iatAddresses of every    *)
(* entry that has at least one function.  An entry without that field      *)
(* makes the read of .length throw a TypeError.                            *)
(***************************************************************************)
HasIatAddresses(imp) == "iatAddresses" \in DOMAIN imp

RECURSIVE IatPairs(_, _)
\* map.set(imp.iatAddresses[i], {lib, func}) for i < both lengths; later sets win
IatPairs(imp, i) ==
    IF i > Len(imp.functions) THEN EmptyMap
    ELSE IatPairs(imp, i + 1)
         @@ (IF i <= Len(imp.iatAddresses)
             THEN imp.iatAddresses[i] :> [lib |-> imp.libraryName, func |-> imp.functions[i]]
             ELSE EmptyMap)

RECURSIVE IatOver(_, _)
IatOver(imports, k) ==
    IF k > Len(imports) THEN EmptyMap
    ELSE IatOver(imports, k + 1) @@ IatPairs(imports[k], 1)

buildIATLookup(imports) ==
    IF \E k \in DOMAIN imports :
          Len(imports[k].functions) > 0 /\ ~HasIatAddresses(imports[k])
    THEN Threw("TypeError")
    ELSE [ok |-> TRUE, map |-> IatOver(imports, 1)]

(***************************************************************************)
(* The images parsed: a well-formed PE32 or PE32+ image with a .text and a *)
(* .rdata section, one import descriptor (an ordinal thunk and a name      *)
(* thunk) and one named export, then damaged in its headers, damaged in    *)
(* its tables and cut at a length.                                         *)
(***************************************************************************)
U8(o, v) == (o :> v)
U16(o, v) == (o :> (v % 256)) @@ ((o + 1) :> ((v \div 256) % 256))
U32(o, v) == U16(o, v % 65536) @@ U16(o + 2, v \div 65536)
Bytes(o, bs) == [x \in o..(o + Len(bs) - 1) |-> bs[x - o + 1]]

\* file offsets and RVAs of the well-formed image
Lay0(is64) ==
    LET dd == 88 + (IF is64 THEN 112 ELSE 96) IN
    [pe |-> 64, coff |-> 68, opt |-> 88, dd |-> dd, sh |-> dd + 16,
     textPtr |-> 304, textRva |-> 4096, textSize |-> 16,
     rdataPtr |-> 320, rdataRva |-> 8192, rdataSize |-> 136,
     thunk |-> IF is64 THEN 8 ELSE 4,
     len |-> 456]

HeaderBytes(is64) ==
    LET L == Lay0(is64) IN
    U16(0, IMAGE_DOS_SIGNATURE) @@ U32(60, L.pe) @@ U32(L.pe, IMAGE_NT_SIGNATURE)
    @@ U16(L.coff + 2, 2) @@ U16(L.coff + 16, L.sh - L.opt)
    @@ U16(L.opt, IF is64 THEN IMAGE_NT_OPTIONAL_HDR64_MAGIC
                  ELSE IMAGE_NT_OPTIONAL_HDR32_MAGIC)
    @@ U32(L.opt + 16, L.textRva)
    @@ U32(L.opt + (IF is64 THEN 24 ELSE 28), 4194304)
    @@ U32(L.opt + (IF is64 THEN 108 ELSE 92), 2)
    @@ U32(L.dd, L.rdataRva + 80) @@ U32(L.dd + 4, 40)
    @@ U32(L.dd + 8, L.rdataRva) @@ U32(L.dd + 12, 40)
    @@ Bytes(L.sh, <<46, 116, 101, 120, 116>>)
    @@ U32(L.sh + 8, L.textSize) @@ U32(L.sh + 12, L.textRva)
    @@ U32(L.sh + 16, L.textSize) @@ U32(L.sh + 20, L.textPtr)
    @@ U32(L.sh + 36, 1610612768)
    @@ Bytes(L.sh + 40, <<46, 114, 100, 97, 116, 97>>)
    @@ U32(L.sh + 48, L.rdataSize) @@ U32(L.sh + 52, L.rdataRva)
    @@ U32(L.sh + 56, L.rdataSize) @@ U32(L.sh + 60, L.rdataPtr)
    @@ U32(L.sh + 76, 1073741888)

TableBytes(is64) ==
    LET L == Lay0(is64)
        P == L.rdataPtr
        R == L.rdataRva
    IN Bytes(L.textPtr, <<85, 72, 49, 64>>)
       \* import descriptor: OriginalFirstThunk, Name, FirstThunk
       @@ U32(P, R + 40) @@ U32(P + 12, R + 64) @@ U32(P + 16, R + 40)
       \* thunk 0 imports ordinal 23, thunk 1 imports by name
       @@ U16(P + 40, 23) @@ U8(P + 40 + L.thunk - 1, 128)
       @@ U32(P + 40 + L.thunk, R + 70)
       @@ Bytes(P + 64, <<107, 46, 100, 108, 108>>)
       @@ Bytes(P + 72, <<102>>)
       \* export directory: NumberOfNames and the three table RVAs
       @@ U32(P + 104, 1) @@ U32(P + 108, R + 120)
       @@ U32(P + 112, R + 124) @@ U32(P + 116, R + 128)
       @@ U32(P + 120, L.textRva) @@ U32(P + 124, R + 130) @@ U16(P + 128, 0)
       @@ Bytes(P + 130, <<101>>)

HeaderDamage(is64) ==
    LET L == Lay0(is64) IN
    { EmptyMap,
      U16(0, 23374),                                  \* not "MZ"
      U32(60, 1000),                                  \* e_lfanew beyond the image
      U32(L.pe, 17745),                               \* not "PE\0\0"
      U16(L.opt, 268),                                \* neither 0x10b nor 0x20b
      U32(L.sh + 56, 1000),                           \* .rdata raw size escapes
      U32(L.sh + 20, 5000),                           \* .text raw pointer escapes
      U16(L.coff + 2, 0),                             \* no sections
      U32(L.opt + (IF is64 THEN 108 ELSE 92), 16),    \* 16 data directories
      U32(L.opt + (IF is64 THEN 108 ELSE 92), 0),     \* no data directories
      U32(L.sh + 8, 8192) }                           \* .text overlaps .rdata

TableDamage(is64) ==
    LET L == Lay0(is64)
        P == L.rdataPtr
        R == L.rdataRva
    IN { EmptyMap,
         U32(P + 12, 100000),                         \* library name out of bounds
         U16(P + 40, 34464) @@ U16(P + 42, 1)
            @@ U8(P + 40 + L.thunk - 1, 0),           \* thunk 0: name out of bounds
         U32(P + 104, 3),                             \* 3 names, 1 in the tables
         U16(P + 128, 60000),                         \* export ordinal out of bounds
         U32(L.dd + 8, 100000),                       \* import table out of bounds
         U32(L.dd, R + 120) }                         \* export table cut by the end

\* the lengths the image is cut at
Lengths ==
    {0, 1, 2, 32, 63, 64, 66, 68, 80, 88, 89, 100, 184, 190, 200, 216, 240, 280,
     296, 304, 320, 340, 362, 380, 400, 440, 456}

Image(is64, hd, td, len) ==
    LET d == td @@ hd @@ TableBytes(is64) @@ HeaderBytes(is64)
    IN [len |-> len, data |-> [o \in {x \in DOMAIN d : x < len} |-> d[o]]]

Images ==
    { Image(is64, hd, td, len) :
        is64 \in BOOLEAN, hd \in UNION {HeaderDamage(b) : b \in BOOLEAN},
        td \in UNION {TableDamage(b) : b \in BOOLEAN}, len \in Lengths }

NoResultYet == [ok |-> FALSE, error |-> "pending"]

PeInit ==
    /\ peImage \in Images
    /\ pePc = "loaded"
    /\ peOut = NoResultYet
    /\ iatOut = NoResultYet

PeIdle ==
    /\ peImage = [len |-> 0, data |-> EmptyMap]
    /\ pePc = "idle"
    /\ peOut = NoResultYet
    /\ iatOut = NoResultYet

\* parsePE(buffer): returns a PEFile or throws
ParsePE ==
    /\ pePc = "loaded"
    /\ peOut' = parsePE(peImage)
    /\ pePc' = "parsed"
    /\ UNCHANGED <<peImage, iatOut>>
    /\ UNCHANGED notPe

\* App: const iatLookup = buildIATLookup(pe.imports)
BuildIATLookup ==
    /\ pePc = "parsed"
    /\ peOut.ok
    /\ iatOut' = buildIATLookup(peOut.imports)
    /\ pePc' = "configured"
    /\ UNCHANGED <<peImage, peOut>>
    /\ UNCHANGED notPe

PeNext == ParsePE \/ BuildIATLookup

(***************************************************************************)
(* rvaToFileOffset on section lists drawn from small ranges.               *)
(***************************************************************************)
MaxSections == 2
MaxRva == 4

SectionChoices ==
    [virtualAddress : 0..2, virtualSize : 0..2, pointerToRawData : {0, 1, 7}]

SectionLists == UNION {[1..n -> SectionChoices] : n \in 0..MaxSections}

RvaInit ==
    /\ rvaIn \in [rva : 0..MaxRva, sections : SectionLists]
    /\ rvaOut = Undefined

RvaIdle ==
    /\ rvaIn = [rva |-> 0, sections |-> <<>>]
    /\ rvaOut = Undefined

RvaToFileOffset ==
    /\ rvaOut = Undefined
    /\ rvaOut' = rvaToFileOffset(rvaIn.rva, rvaIn.sections)
    /\ UNCHANGED rvaIn
    /\ UNCHANGED notRva

RvaNext == RvaToFileOffset

(***************************************************************************)
(* disassemble (disasm.worker.ts): the chunked linear sweep.  The decoder  *)
(* is any Capstone outcome on a chunk of n bytes: it throws, it returns    *)
(* nothing, or it returns consecutive instructions from the chunk start.   *)
(* A decoder result is kept as a run [address, size, count]: count         *)
(* instructions of size bytes each, back to back from address.             *)
(***************************************************************************)
MaxInsnSize == 3
MaxPartial == 2
SweepBase == 4096

ChunkEnd(offset, len) == Min(offset + CHUNK_SIZE, len)

\* the instruction lists the decoder may return on a chunk of n bytes; a
\* partial result stops before the chunk is used up
DecoderRuns(n, partial) ==
    { r \in [size : 1..MaxInsnSize, count : {1, 2, n \div 1, n \div 2, n \div 3}] :
        /\ r.count >= 1
        /\ r.size * r.count <= n
        /\ (r.count = n \div r.size \/ partial) }

LastInsn(run) ==
    [address |-> run.address + (run.count - 1) * run.size, size |-> run.size]

\* the advance that forgets the size of the last instruction
Decoded_NoSize(lastInsn, baseAddress, offset) ==
    lastInsn.address - (baseAddress + offset)

\* const decoded = (lastInsn.address - (baseAddress + offset)) + lastInsn.size
Decoded(lastInsn, baseAddress, offset) ==
    (lastInsn.address - (baseAddress + offset)) + lastInsn.size

\* the advance of a resync that stays in place
ResyncStep_Zero(offset) == offset

\* offset += 1
ResyncStep(offset) == offset + 1

SweepLengths ==
    {0, 1, 2, 3, 5, CHUNK_SIZE - 1, CHUNK_SIZE, CHUNK_SIZE + 1, CHUNK_SIZE + 4,
     2 * CHUNK_SIZE + 1}

SweepInit ==
    /\ swLen \in SweepLengths
    /\ swOffset = 0
    /\ swOut = <<>>
    /\ swLog = <<>>
    /\ swBudget = MaxPartial
    /\ swPc = "sweep"

SweepIdle ==
    /\ swLen = 0
    /\ swOffset = 0
    /\ swOut = <<>>
    /\ swLog = <<>>
    /\ swBudget = 0
    /\ swPc = "idle"

\* one iteration whose decoder call returns instructions
SweepDecoded ==
    /\ swPc = "sweep"
    /\ swOffset < swLen
    /\ \E r \in DecoderRuns(ChunkEnd(swOffset, swLen) - swOffset, swBudget > 0) :
          LET run == [address |-> SweepBase + swOffset, size |-> r.size, count |-> r.count]
              whole == r.count = (ChunkEnd(swOffset, swLen) - swOffset) \div r.size
          IN /\ swOut' = Append(swOut, run)
             /\ swOffset' = swOffset + Decoded(LastInsn(run), SweepBase, swOffset)
             /\ swBudget' = IF whole THEN swBudget ELSE swBudget - 1
    /\ swLog' = Append(swLog, "decoded")
    /\ UNCHANGED <<swLen, swPc>>
    /\ UNCHANGED notSweep

\* one iteration whose decoder call returns no instruction
SweepResync ==
    /\ swPc = "sweep"
    /\ swOffset < swLen
    /\ swBudget > 0
    /\ swOffset' = ResyncStep(swOffset)
    /\ swBudget' = swBudget - 1
    /\ swLog' = Append(swLog, "empty")
    /\ UNCHANGED <<swLen, swOut, swPc>>
    /\ UNCHANGED notSweep

\* one iteration whose decoder call throws
SweepSkipChunk ==
    /\ swPc = "sweep"
    /\ swOffset < swLen
    /\ swOffset' = swOffset + CHUNK_SIZE
    /\ swLog' = Append(swLog, "threw")
    /\ UNCHANGED <<swLen, swOut, swBudget, swPc>>
    /\ UNCHANGED notSweep

\* the loop condition fails: return instructions
SweepReturn ==
    /\ swPc = "sweep"
    /\ ~(swOffset < swLen)
    /\ swPc' = "done"
    /\ UNCHANGED <<swLen, swOffset, swOut, swLog, swBudget>>
    /\ UNCHANGED notSweep

SweepNext == SweepDecoded \/ SweepResync \/ SweepSkipChunk \/ SweepReturn

(***************************************************************************)
(* The worker client and the in-thread engine: their disassembly caches.   *)
(* A disassembly is represented by what it was computed from: the image    *)
(* the bytes were taken from, the base address, the byte count, the mode.  *)
(***************************************************************************)
MaxImages == 2
MaxSends == 3

CacheBases == {4096}
CacheLengths == {4, 8}

\* the arguments of a disassemble call made while image is loaded
DisasmArgs(image) ==
    { [image |-> image, baseAddress |-> b, length |-> n, is64 |-> m] :
        b \in CacheBases, n \in CacheLengths, m \in BOOLEAN }

\* const key = `${baseAddress}:${is64}`
ClientKey(args) == <<args.baseAddress, args.is64>>

\* const cacheKey = `${baseAddress}:${bytes.length}:${is64}`
EngineKey(args) == <<args.baseAddress, args.length, args.is64>>

\* map.set(key, value)
MapSet(map, key, value) ==
    [k \in DOMAIN map \cup {key} |-> IF k = key THEN value ELSE map[k]]

\* map.delete(key)
MapDelete(map, key) == [k \in DOMAIN map \ {key} |-> map[k]]

NoReturn == [returned |-> FALSE]

Returned(args, result, memoized) ==
    [returned |-> TRUE, args |-> args, result |-> result, memoized |-> memoized]

\* the worker's answer to one message
WorkerResult(msg) == IF msg.method = "disassemble" THEN msg.args ELSE TRUE

ClientInit ==
    /\ cliImage = 1
    /\ disasmCache = EmptyMap
    /\ pending = EmptyMap
    /\ nextId = 1
    /\ toWorker = <<>>
    /\ toClient = <<>>
    /\ cliOut = NoReturn
    /\ engCache = EmptyMap
    /\ engOut = NoReturn

ClientIdle ==
    /\ cliImage = 0
    /\ disasmCache = EmptyMap
    /\ pending = EmptyMap
    /\ nextId = 0
    /\ toWorker = <<>>
    /\ toClient = <<>>
    /\ cliOut = NoReturn
    /\ engCache = EmptyMap
    /\ engOut = NoReturn

\* another file is loaded and App's effect calls configure(): the cache is
\* cleared, then 'configure' is posted
CliConfigure ==
    /\ cliImage < MaxImages
    /\ nextId <= MaxSends
    /\ cliImage' = cliImage + 1
    /\ disasmCache' = EmptyMap
    /\ pending' = MapSet(pending, nextId, [method |-> "configure"])
    /\ toWorker' = Append(toWorker, [id |-> nextId, method |-> "configure"])
    /\ nextId' = nextId + 1
    /\ UNCHANGED <<toClient, cliOut, engCache, engOut>>
    /\ UNCHANGED notClient

\* disassemble() up to its await: a cached list is returned, otherwise
\* 'disassemble' is posted
CliDisassemble ==
    /\ \E args \in DisasmArgs(cliImage) :
          IF ClientKey(args) \in DOMAIN disasmCache
          THEN /\ cliOut' = Returned(args, disasmCache[ClientKey(args)], TRUE)
               /\ UNCHANGED <<pending, toWorker, nextId>>
          ELSE /\ nextId <= MaxSends
               /\ pending' = MapSet(pending, nextId,
                                    [method |-> "disassemble", args |-> args])
               /\ toWorker' = Append(toWorker,
                                     [id |-> nextId, method |-> "disassemble", args |-> args])
               /\ nextId' = nextId + 1
               /\ UNCHANGED cliOut
    /\ UNCHANGED <<cliImage, disasmCache, toClient, engCache, engOut>>
    /\ UNCHANGED notClient

\* the worker handles its oldest message and posts the answer
WorkerAnswer ==
    /\ toWorker # <<>>
    /\ toClient' = Append(toClient, [id |-> Head(toWorker).id,
                                     result |-> WorkerResult(Head(toWorker))])
    /\ toWorker' = Tail(toWorker)
    /\ UNCHANGED <<cliImage, disasmCache, pending, nextId, cliOut, engCache, engOut>>
    /\ UNCHANGED notClient

\* worker.onmessage and the continuation of the call it resolves
CliReceive ==
    /\ toClient # <<>>
    /\ LET msg == Head(toClient)
           p == pending[msg.id]
       IN /\ pending' = MapDelete(pending, msg.id)
          /\ IF p.method = "disassemble"
             THEN /\ disasmCache' = MapSet(disasmCache, ClientKey(p.args), msg.result)
                  /\ cliOut' = Returned(p.args, msg.result, FALSE)
             ELSE UNCHANGED <<disasmCache, cliOut>>
    /\ toClient' = Tail(toClient)
    /\ UNCHANGED <<cliImage, nextId, toWorker, engCache, engOut>>
    /\ UNCHANGED notClient

\* DisassemblyEngine.disassemble
EngDisassemble ==
    /\ \E args \in DisasmArgs(cliImage) :
          IF EngineKey(args) \in DOMAIN engCache
          THEN /\ engOut' = Returned(args, engCache[EngineKey(args)], TRUE)
               /\ UNCHANGED engCache
          ELSE /\ engCache' = MapSet(engCache, EngineKey(args), args)
               /\ engOut' = Returned(args, args, FALSE)
    /\ UNCHANGED <<cliImage, disasmCache, pending, nextId, toWorker, toClient, cliOut>>
    /\ UNCHANGED notClient

\* DisassemblyEngine.clearCache
EngClearCache ==
    /\ engCache # EmptyMap
    /\ engCache' = EmptyMap
    /\ UNCHANGED <<cliImage, disasmCache, pending, nextId, toWorker, toClient, cliOut,
                   engOut>>
    /\ UNCHANGED notClient

ClientNext ==
    \/ CliConfigure
    \/ CliDisassemble
    \/ WorkerAnswer
    \/ CliReceive
    \/ EngDisassemble
    \/ EngClearCache

(***************************************************************************)
(* buildTypedXrefMap (disassembly worker).  The map is the sequence of its *)
(* entries in insertion order, as Array.from(xrefs.entries()) returns it.  *)
(***************************************************************************)
\* xrefs.get(target), created when absent, then arr.push(x)
PushXref(entries, target, x) ==
    IF \E k \in DOMAIN entries : entries[k].to = target
    THEN [k \in DOMAIN entries |->
            IF entries[k].to = target
            THEN [to |-> target, xrefs |-> Append(entries[k].xrefs, x)]
            ELSE entries[k]]
    ELSE Append(entries, [to |-> target, xrefs |-> <<x>>])

\* mutant: every hex literal is taken for an address
LiteralIsAddress_Any(addr) == TRUE

\* if (addr > 0x10000)
LiteralIsAddress(addr) == addr > 65536

RECURSIVE PushLiterals(_, _, _)
\* for (const addrStr of addrMatches): a data xref per literal above the threshold
PushLiterals(lits, from, entries) ==
    IF lits = <<>> THEN entries
    ELSE PushLiterals(Tail(lits), from,
                      IF LiteralIsAddress(Head(lits))
                      THEN PushXref(entries, Head(lits), [from |-> from, type |-> "data"])
                      ELSE entries)

\* mutant: conditional jumps are not classified
DirectType_NoBranch(mn) ==
    IF mn = "call" THEN "call" ELSE IF mn = "jmp" THEN "jmp" ELSE ""

\* the type of a direct transfer, or "" for a non-control mnemonic
DirectType(mn) ==
    IF mn = "call" THEN "call"
    ELSE IF mn = "jmp" THEN "jmp"
    ELSE IF StartsWithJ(mn) THEN "branch"
    ELSE ""

\* the type of a RIP-relative reference
RipType(mn) == IF mn = "call" THEN "call" ELSE IF mn = "jmp" THEN "jmp" ELSE "data"

\* one iteration of the loop over the instructions
XrefStep(insn, entries) ==
    IF DirectMatch(insn.opStr)
    THEN IF DirectType(insn.mnemonic) = "" THEN entries
         ELSE PushXref(entries, DirectTarget(insn.opStr),
                       [from |-> insn.address, type |-> DirectType(insn.mnemonic)])
    ELSE IF RipMatches(insn.opStr) # {}
    THEN PushXref(entries, RipTarget(insn),
                  [from |-> insn.address, type |-> RipType(insn.mnemonic)])
    ELSE IF insn.mnemonic # "call" /\ insn.mnemonic # "jmp" /\ ~StartsWithJ(insn.mnemonic)
    THEN PushLiterals(HexLiterals(insn.opStr), insn.address, entries)
    ELSE entries

RECURSIVE XrefFold(_, _)
XrefFold(instructions, entries) ==
    IF instructions = <<>> THEN entries
    ELSE XrefFold(Tail(instructions), XrefStep(Head(instructions), entries))

buildTypedXrefMap(instructions) == XrefFold(instructions, <<>>)

(***************************************************************************)
(* The instruction lists the xref builder is run on.                       *)
(***************************************************************************)
MaxXrefInsns == 2
XrefInsnSize == 7

XrefMnemonics == {"call", "jmp", "jne", "lea", "mov"}

\* operands: bare literals at and around the threshold, RIP-relative
\* references, literals among other text
XrefOperands ==
    { <<Hex(65536)>>, <<Hex(65537)>>, <<Txt, Hex(65536)>>, <<Txt, Hex(65537), Hex(300)>>,
      <<Txt, Rip(1, 16)>>, <<Rip(-1, 16)>>, <<Txt>>, <<Txt, Hex(65537), Hex(65537)>> }

XrefBases == {4096, 131072}

XrefLists ==
    { [k \in 1..n |-> Insn(b + XrefInsnSize * (k - 1), XrefInsnSize, ms[k], os[k])] :
        b \in XrefBases, n \in {MaxXrefInsns},
        ms \in [1..MaxXrefInsns -> XrefMnemonics],
        os \in [1..MaxXrefInsns -> XrefOperands] }
    \cup { <<Insn(b, XrefInsnSize, m, o)>> :
             b \in XrefBases, m \in XrefMnemonics, o \in XrefOperands }
    \cup { <<>> }

XrefInit ==
    /\ xrIn \in XrefLists
    /\ xrOut = [done |-> FALSE, entries |-> <<>>]

XrefIdle ==
    /\ xrIn = <<>>
    /\ xrOut = [done |-> TRUE, entries |-> <<>>]

\* case 'buildTypedXrefMap'
BuildTypedXrefMap ==
    /\ ~xrOut.done
    /\ xrOut' = [done |-> TRUE, entries |-> buildTypedXrefMap(xrIn)]
    /\ UNCHANGED xrIn
    /\ UNCHANGED notXref

XrefNext == BuildTypedXrefMap

(***************************************************************************)
(* inferSignature32.  Operand strings gain the tokens the inference looks  *)
(* at: the separator, ecx as a register and inside a memory operand, a     *)
(* decimal number, and frame or stack relative memory operands.            *)
(***************************************************************************)
Comma == [t |-> ",", s |-> 0, v |-> 0]
Ecx == [t |-> "ecx", s |-> 0, v |-> 0]
EcxMem == [t |-> "[ecx]", s |-> 0, v |-> 0]
Dec(n) == [t |-> "dec", s |-> 0, v |-> n]
\* [reg + 0xN] or [reg - 0xN] with reg one of ebp, rbp, esp, rsp
Mem(reg, sign, n) == [t |-> reg, s |-> sign, v |-> n]

NaN == -1

\* lower.includes('ecx')
IncludesEcx(tokens) == \E k \in DOMAIN tokens : tokens[k].t \in {"ecx", "[ecx]"}

Commas(opStr) == {k \in DOMAIN opStr : opStr[k].t = ","}
FirstComma(opStr) == CHOOSE k \in Commas(opStr) : \A j \in Commas(opStr) : k <= j

\* opStr.split(',')[0]
FirstPart(opStr) ==
    IF Commas(opStr) = {} THEN opStr ELSE SubSeq(opStr, 1, FirstComma(opStr) - 1)

\* parts.slice(1).join(',')
RestParts(opStr) == SubSeq(opStr, FirstComma(opStr) + 1, Len(opStr))

\* isSourceOperand(mnemonic, opStr, 'ecx')
isSourceOperand(mnemonic, opStr) ==
    IF mnemonic \in {"mov", "lea", "movzx", "movsx"}
    THEN /\ Commas(opStr) # {}
         /\ IncludesEcx(RestParts(opStr))
         /\ ~IncludesEcx(FirstPart(opStr))
    ELSE IF mnemonic \in {"cmp", "test", "push"} THEN IncludesEcx(opStr)
    ELSE IF mnemonic = "call" THEN FALSE
    ELSE IncludesEcx(opStr)

\* parseInt(opStr, 10): the leading decimal digits ("0x8, eax" parses as 0)
ParseIntDec(opStr) ==
    IF opStr = <<>> THEN NaN
    ELSE IF opStr[1].t = "dec" THEN opStr[1].v
    ELSE IF opStr[1].t = "hex" THEN 0
    ELSE NaN

\* the bytes the final ret N pops, 0 when none or not a number
RetBytes(last) ==
    IF ~IsRet(last.mnemonic) THEN 0
    ELSE IF DirectMatch(last.opStr) THEN DirectTarget(last.opStr)
    ELSE IF ParseIntDec(last.opStr) # NaN THEN ParseIntDec(last.opStr)
    ELSE 0

RECURSIVE EcxScan(_, _, _)
\* the loop over the first scanLimit instructions: ecxRead
EcxScan(funcInsns, i, scanLimit) ==
    IF i > scanLimit THEN FALSE
    ELSE IF isSourceOperand(funcInsns[i].mnemonic, funcInsns[i].opStr) THEN TRUE
    ELSE IF FirstPart(funcInsns[i].opStr) = <<Ecx>> /\ funcInsns[i].mnemonic \in {"mov", "xor"}
    THEN FALSE
    ELSE EcxScan(funcInsns, i + 1, scanLimit)

\* opStr.match(/\[ebp\s*\+\s*0x([0-9a-fA-F]+)\]/i): the first [ebp + 0xN]
EbpPlus(opStr) == {k \in DOMAIN opStr : opStr[k].t = "ebp" /\ opStr[k].s = 1}
EbpOffset(opStr) == opStr[CHOOSE k \in EbpPlus(opStr) : \A j \in EbpPlus(opStr) : k <= j].v

\* Math.max over a non-empty set
MaxOf(S) == CHOOSE x \in S : \A y \in S : y <= x

\* maxOffset over the whole function
MaxEbpOffset(funcInsns) ==
    MaxOf({0} \cup { EbpOffset(funcInsns[k].opStr) :
                     k \in {j \in DOMAIN funcInsns :
                              /\ EbpPlus(funcInsns[j].opStr) # {}
                              /\ EbpOffset(funcInsns[j].opStr) >= 8} })

\* [ebp + 0x8+] accesses count when paramCount is still 0
EbpParamCount(paramCount, funcInsns) ==
    IF paramCount = 0 /\ MaxEbpOffset(funcInsns) >= 8
    THEN ((MaxEbpOffset(funcInsns) - 8) \div 4) + 1 ELSE paramCount

inferSignature32(funcInsns) ==
    LET last == funcInsns[Len(funcInsns)]
        retBytes == RetBytes(last)
        stdcall == retBytes > 0
        ecxRead == EcxScan(funcInsns, 1, Min(Len(funcInsns), 10))
    IN [convention |-> IF stdcall THEN "stdcall"
                       ELSE IF ecxRead THEN "thiscall" ELSE "cdecl",
        paramCount |-> EbpParamCount(IF stdcall THEN retBytes \div 4 ELSE 0, funcInsns)]

(***************************************************************************)
(* The 32-bit functions the inference is run on.                           *)
(***************************************************************************)
MaxBodyInsns == 2

BodyInsns ==
    { Insn(0, 1, "mov", <<Txt, Comma, Mem("ebp", 1, 12)>>),
      Insn(0, 1, "mov", <<Txt, Comma, Ecx>>),
      Insn(0, 1, "mov", <<Ecx, Comma, Txt>>),
      Insn(0, 1, "add", <<Txt, Comma, EcxMem>>),
      Insn(0, 1, "push", <<Txt>>) }

LastInsns ==
    { Insn(0, 1, "ret", <<>>), Insn(0, 1, "ret", <<Dec(0)>>), Insn(0, 1, "ret", <<Dec(2)>>),
      Insn(0, 1, "ret", <<Dec(8)>>), Insn(0, 1, "ret", <<Hex(0)>>),
      Insn(0, 1, "ret", <<Hex(16)>>), Insn(0, 1, "retn", <<Hex(12)>>),
      Insn(0, 1, "retn", <<Dec(4)>>), Insn(0, 1, "pop", <<Txt>>) }

RECURSIVE BodiesUpTo(_)
BodiesUpTo(n) == IF n = 0 THEN {<<>>} ELSE BodiesUpTo(n - 1) \cup [1..n -> BodyInsns]

\* instructions laid out one after the other from SectionBase
Placed(insns) == [k \in DOMAIN insns |-> [insns[k] EXCEPT !.address = SectionBase + k - 1]]

SigFunctions == { Placed(Append(b, l)) : b \in BodiesUpTo(MaxBodyInsns), l \in LastInsns }

NoSignature == [done |-> FALSE]

SigInit ==
    /\ sigIn \in SigFunctions
    /\ sigOut = NoSignature

SigIdle ==
    /\ sigIn = <<>>
    /\ sigOut = NoSignature

\* inferSignature(func, instructions, false) for a function that has instructions
InferSignature32 ==
    /\ sigIn # <<>>
    /\ ~sigOut.done
    /\ sigOut' = [done |-> TRUE, sig |-> inferSignature32(sigIn)]
    /\ UNCHANGED sigIn
    /\ UNCHANGED notSig

SigNext == InferSignature32

(***************************************************************************)
(* analyzeStackFrame.  Mem(reg, 0, 0) is the bare register reg; the size   *)
(* prefixes of a memory operand are tokens of their own.                   *)
(***************************************************************************)
SizePrefix(word) == [t |-> word, s |-> 0, v |-> 0]

bpReg(is64) == IF is64 THEN "rbp" ELSE "ebp"
spReg(is64) == IF is64 THEN "rsp" ELSE "esp"

\* opStr.includes(word): dword and qword contain word
IncludesWord(opStr, word) ==
    \E k \in DOMAIN opStr :
        \/ opStr[k].t = word
        \/ word = "word" /\ opStr[k].t \in {"dword", "qword"}

inferSize(opStr, is64) ==
    IF IncludesWord(opStr, "byte") THEN 1
    ELSE IF IncludesWord(opStr, "word") /\ ~IncludesWord(opStr, "dword")
            /\ ~IncludesWord(opStr, "qword") THEN 2
    ELSE IF IncludesWord(opStr, "dword") THEN 4
    ELSE IF IncludesWord(opStr, "qword") THEN 8
    ELSE IF is64 THEN 8 ELSE 4

\* sub rsp, N / sub esp, N with N hex or decimal: the operand is exactly that
IsFrameSub(insn, is64) ==
    /\ insn.mnemonic = "sub"
    /\ Len(insn.opStr) = 3
    /\ insn.opStr[1] = Mem(spReg(is64), 0, 0)
    /\ insn.opStr[2] = Comma
    /\ insn.opStr[3].t \in {"hex", "dec"}

\* frameSize: the first such sub among the first 10 instructions
FrameSize(funcInsns, is64) ==
    LET subs == {k \in 1..Min(Len(funcInsns), 10) : IsFrameSub(funcInsns[k], is64)}
    IN IF subs = {} THEN 0
       ELSE funcInsns[CHOOSE k \in subs : \A j \in subs : k <= j].opStr[3].v

\* op.match(/\[reg\s*[+-]\s*0x([0-9a-fA-F]+)\]/i): the first such operand
MemMatches(opStr, reg, sign) ==
    {k \in DOMAIN opStr : opStr[k].t = reg /\ opStr[k].s = sign}
MemOffset(opStr, reg, sign) ==
    opStr[CHOOSE k \in MemMatches(opStr, reg, sign) :
            \A j \in MemMatches(opStr, reg, sign) : k <= j].v

\* a local access: count it, keep the larger size, or create the entry
TouchLocal(varMap, offset, size) ==
    IF offset \in DOMAIN varMap
    THEN [varMap EXCEPT ![offset] =
            [size |-> IF size > @.size THEN size ELSE @.size,
             accessCount |-> @.accessCount + 1, isParam |-> @.isParam]]
    ELSE MapSet(varMap, offset, [size |-> size, accessCount |-> 1, isParam |-> FALSE])

\* a parameter access: count it, or create the entry
TouchParam(varMap, offset, size) ==
    IF offset \in DOMAIN varMap
    THEN [varMap EXCEPT ![offset] =
            [size |-> @.size, accessCount |-> @.accessCount + 1, isParam |-> @.isParam]]
    ELSE MapSet(varMap, offset, [size |-> size, accessCount |-> 1, isParam |-> TRUE])

minParamOffset(is64) == IF is64 THEN 16 ELSE 8

\* one iteration: [bp - 0xN], then [sp + 0xN], then [bp + 0xN]
StackStep(insn, varMap, is64) ==
    LET op == insn.opStr
        size == inferSize(op, is64)
        m1 == IF MemMatches(op, bpReg(is64), -1) # {}
              THEN TouchLocal(varMap, MemOffset(op, bpReg(is64), -1), size) ELSE varMap
        m2 == IF MemMatches(op, spReg(is64), 1) # {}
              THEN TouchLocal(m1, MemOffset(op, spReg(is64), 1), size) ELSE m1
    IN IF MemMatches(op, bpReg(is64), 1) # {}
          /\ MemOffset(op, bpReg(is64), 1) >= minParamOffset(is64)
       THEN TouchParam(m2, MemOffset(op, bpReg(is64), 1), size) ELSE m2

RECURSIVE StackScan(_, _, _)
StackScan(funcInsns, varMap, is64) ==
    IF funcInsns = <<>> THEN varMap
    ELSE StackScan(Tail(funcInsns), StackStep(Head(funcInsns), varMap, is64), is64)

\* the parameters at offsets below offset: paramIdx when offset is reached
ParamsBelow(varMap, offset) ==
    Cardinality({o \in DOMAIN varMap : o < offset /\ varMap[o].isParam})

\* `arg_${paramIdx}` or `var_${offset.toString(16).toUpperCase()}`
VarName(varMap, offset) ==
    IF varMap[offset].isParam THEN <<"arg", ParamsBelow(varMap, offset)>>
    ELSE <<"var", offset>>

analyzeStackFrame(funcInsns, is64) ==
    LET frameSize == FrameSize(funcInsns, is64)
        varMap == StackScan(funcInsns, EmptyMap, is64)
        sortedOffsets == SortAsc(DOMAIN varMap)
    IN IF funcInsns = <<>> \/ (DOMAIN varMap = {} /\ frameSize = 0) THEN None
       ELSE [frameSize |-> frameSize,
             vars |-> [i \in DOMAIN sortedOffsets |->
                         [offset |-> sortedOffsets[i],
                          size |-> varMap[sortedOffsets[i]].size,
                          accessCount |-> varMap[sortedOffsets[i]].accessCount,
                          name |-> VarName(varMap, sortedOffsets[i])]]]

(***************************************************************************)
(* The functions the stack analysis is run on.                             *)
(***************************************************************************)
MaxStackInsns == 3

StackInsns(is64) ==
    { Insn(0, 1, "mov", <<Txt, Comma, SizePrefix("dword"), Mem(bpReg(is64), -1, 16)>>),
      Insn(0, 1, "mov", <<Txt, Comma, Mem(bpReg(is64), 1, 16)>>),
      Insn(0, 1, "mov", <<SizePrefix("byte"), Mem(bpReg(is64), 1, 8), Comma, Txt>>),
      Insn(0, 1, "mov", <<Txt, Comma, Mem(bpReg(is64), 1, 24)>>),
      Insn(0, 1, "mov", <<Txt, Comma, Mem(bpReg(is64), -1, 4)>>),
      Insn(0, 1, "lea", <<Txt, Comma, Mem(spReg(is64), 1, 32)>>),
      Insn(0, 1, "mov", <<Mem(spReg(is64), 1, 16), Comma, Txt>>),
      Insn(0, 1, "sub", <<Mem(spReg(is64), 0, 0), Comma, Hex(32)>>),
      Insn(0, 1, "ret", <<>>) }

RECURSIVE StackListsUpTo(_, _)
StackListsUpTo(n, is64) ==
    IF n = 0 THEN {<<>>}
    ELSE StackListsUpTo(n - 1, is64) \cup [1..n -> StackInsns(is64)]

StackInputs ==
    { [insns |-> Placed(l), is64 |-> m] :
        m \in {FALSE}, l \in StackListsUpTo(MaxStackInsns, FALSE) }
    \cup { [insns |-> Placed(l), is64 |-> m] :
             m \in {TRUE}, l \in StackListsUpTo(MaxStackInsns, TRUE) }

NoFrame == [done |-> FALSE]

StackInit ==
    /\ stackIn \in StackInputs
    /\ stackOut = NoFrame

StackIdle ==
    /\ stackIn = [insns |-> <<>>, is64 |-> FALSE]
    /\ stackOut = [done |-> TRUE, frame |-> None]

\* analyzeStackFrame(func, instructions, is64) with stackIn.insns the
\* instructions inside the function
AnalyzeStackFrame ==
    /\ ~stackOut.done
    /\ stackOut' = [done |-> TRUE, frame |-> analyzeStackFrame(stackIn.insns, stackIn.is64)]
    /\ UNCHANGED stackIn
    /\ UNCHANGED notStack

StackNext == AnalyzeStackFrame

(***************************************************************************)
(* Worker RPC: DisasmWorkerClient.send, worker.onmessage and the worker's  *)
(* message handler.  A request is [id, fails]: fails says whether the      *)
(* handler throws for it.  Answers in flight form a set: the handler is    *)
(* async, so answers need not arrive in request order.                     *)
(***************************************************************************)
MaxRpcSends == 3
MaxStray == 1

RpcIds == 1..(MaxRpcSends + 1)

\* mutant: the id counter does not move
IdAfter_Same(id) == id

\* const id = this.nextId++
IdAfter(id) == id + 1

\* self.onmessage: exactly one answer, a result or (from the catch) an error
AnswerTo(req) == [id |-> req.id, error |-> req.fails]

RpcInit ==
    /\ rpcNextId = 1
    /\ rpcPending = {}
    /\ rpcSent = EmptyMap
    /\ rpcToWorker = <<>>
    /\ rpcToClient = {}
    /\ rpcSettled = EmptyMap
    /\ rpcStray = MaxStray

RpcIdle ==
    /\ rpcNextId = 0
    /\ rpcPending = {}
    /\ rpcSent = EmptyMap
    /\ rpcToWorker = <<>>
    /\ rpcToClient = {}
    /\ rpcSettled = EmptyMap
    /\ rpcStray = 0

\* send(method, args): a new id, a pending entry, the message posted
RpcSend ==
    /\ rpcNextId >= 1
    /\ rpcNextId <= MaxRpcSends
    /\ \E fails \in BOOLEAN :
          /\ rpcSent' = MapSet(rpcSent, rpcNextId, Append(
                            IF rpcNextId \in DOMAIN rpcSent THEN rpcSent[rpcNextId] ELSE <<>>,
                            fails))
          /\ rpcToWorker' = Append(rpcToWorker, [id |-> rpcNextId, fails |-> fails])
    /\ rpcPending' = rpcPending \cup {rpcNextId}
    /\ rpcNextId' = IdAfter(rpcNextId)
    /\ UNCHANGED <<rpcToClient, rpcSettled, rpcStray>>
    /\ UNCHANGED notRpc

\* the worker takes its oldest message and posts the answer
RpcWorker ==
    /\ rpcToWorker # <<>>
    /\ rpcToClient' = rpcToClient \cup {AnswerTo(Head(rpcToWorker))}
    /\ rpcToWorker' = Tail(rpcToWorker)
    /\ UNCHANGED <<rpcNextId, rpcPending, rpcSent, rpcSettled, rpcStray>>
    /\ UNCHANGED notRpc

\* worker.onmessage for a message [id, error]
OnMessage(msg) ==
    IF msg.id \notin rpcPending
    THEN UNCHANGED <<rpcPending, rpcSettled>>
    ELSE /\ rpcPending' = rpcPending \ {msg.id}
         /\ rpcSettled' = MapSet(rpcSettled, msg.id, Append(
                              IF msg.id \in DOMAIN rpcSettled THEN rpcSettled[msg.id] ELSE <<>>,
                              IF msg.error THEN "rejected" ELSE "resolved"))

\* the answer to request id arrives
RpcReceive(id) ==
    /\ \E msg \in rpcToClient :
          /\ msg.id = id
          /\ OnMessage(msg)
          /\ rpcToClient' = rpcToClient \ {msg}
    /\ UNCHANGED <<rpcNextId, rpcSent, rpcToWorker, rpcStray>>
    /\ UNCHANGED notRpc

\* a message with an id that is not pending arrives
RpcStrayMessage ==
    /\ rpcStray > 0
    /\ \E id \in RpcIds \ rpcPending : \E error \in BOOLEAN :
          OnMessage([id |-> id, error |-> error])
    /\ rpcStray' = rpcStray - 1
    /\ UNCHANGED <<rpcNextId, rpcSent, rpcToWorker, rpcToClient>>
    /\ UNCHANGED notRpc

RpcDeliver == \E id \in RpcIds : RpcReceive(id)

RpcNext ==
    \/ RpcSend
    \/ RpcWorker
    \/ RpcDeliver
    \/ RpcStrayMessage

\* the event loops run the worker's handler and deliver every posted answer
RpcFairness == WF_vars(RpcWorker) /\ \A id \in RpcIds : WF_vars(RpcReceive(id))

(***************************************************************************)
(* DisassemblyView: the effect that disassembles the current section.      *)
(* Its dependencies are (pe, sectionInfo, state.disasmReady); image 0 is   *)
(* no image, section 0 an address that lies in no section.                 *)
(***************************************************************************)
MaxChanges == 3

ViewImages == 0..2
ViewSections == 0..2

\* the dependency values the component can render with
ViewDeps ==
    { [pe |-> p, sectionInfo |-> s, disasmReady |-> r] :
        p \in ViewImages, s \in ViewSections, r \in BOOLEAN }
    \ { [pe |-> 0, sectionInfo |-> s, disasmReady |-> r] : s \in ViewSections \ {0}, r \in BOOLEAN }

\* if (!pe || !sectionInfo || !state.disasmReady) return
EffectRuns(deps) == deps.pe # 0 /\ deps.sectionInfo # 0 /\ deps.disasmReady

NoEffect == 0

ViewInit ==
    /\ viewDeps = [pe |-> 0, sectionInfo |-> 0, disasmReady |-> FALSE]
    /\ disassembling = FALSE
    /\ viewEffect = NoEffect
    /\ viewInFlight = {}
    /\ viewCancelled = {}
    /\ viewChanges = 0

ViewIdle ==
    /\ viewDeps = [pe |-> 0, sectionInfo |-> 0, disasmReady |-> FALSE]
    /\ disassembling = FALSE
    /\ viewEffect = NoEffect
    /\ viewInFlight = {}
    /\ viewCancelled = {}
    /\ viewChanges = MaxChanges

\* a render with changed dependencies: the cleanup of the previous effect
\* (cancelled = true) runs, then the effect body
ViewDepsChange ==
    /\ viewChanges < MaxChanges
    /\ viewChanges' = viewChanges + 1
    /\ \E deps \in ViewDeps \ {viewDeps} :
          /\ viewDeps.disasmReady => deps.disasmReady
          /\ viewDeps' = deps
          /\ viewCancelled' = IF viewEffect # NoEffect THEN viewCancelled \cup {viewEffect}
                              ELSE viewCancelled
          /\ IF EffectRuns(deps)
             THEN /\ disassembling' = TRUE
                  /\ viewEffect' = viewChanges + 1
                  /\ viewInFlight' = viewInFlight \cup {viewChanges + 1}
             ELSE /\ viewEffect' = NoEffect
                  /\ UNCHANGED <<disassembling, viewInFlight>>
    /\ UNCHANGED notView

\* the promise of effect run r settles: finally, if (!cancelled) setDisassembling(false)
ViewSettle ==
    /\ \E r \in viewInFlight :
          /\ viewInFlight' = viewInFlight \ {r}
          /\ disassembling' = IF r \in viewCancelled THEN disassembling ELSE FALSE
    /\ UNCHANGED <<viewDeps, viewEffect, viewCancelled, viewChanges>>
    /\ UNCHANGED notView

ViewNext == ViewDepsChange \/ ViewSettle

(***************************************************************************)
(* appReducer: the navigation history and the annotations with their       *)
(* undo / redo stacks.  historyIndex is zero-based as in the source, so    *)
(* addressHistory[historyIndex] of the source is At(addressHistory,        *)
(* historyIndex) here.                                                     *)
(***************************************************************************)
MAX_HISTORY == 50
MAX_UNDO == 50
MaxAnnotationActions == 4

NavAddresses == {4096, 8192}
EntryAddresses == {4096}
AnnotationAddresses == {4096}
Labels == {"l"}
Names == {"f"}
Texts == {"t"}

\* seq[i] with a zero-based index
At(seq, i) == seq[i + 1]

\* array.shift() applied when the array is longer than max
ShiftOver(seq, max) == IF Len(seq) > max THEN Tail(seq) ELSE seq

RemoveAt(seq, i) == [k \in 1..(Len(seq) - 1) |-> IF k < i THEN seq[k] ELSE seq[k + 1]]

\* { ...a, ...b }
MapMerge(a, b) == [k \in DOMAIN a \cup DOMAIN b |-> IF k \in DOMAIN b THEN b[k] ELSE a[k]]

snapshotAnnotations ==
    [bookmarks |-> bookmarks, renames |-> renames, comments |-> comments]

pushUndo ==
    [annotationUndoStack |-> ShiftOver(Append(annotationUndoStack, snapshotAnnotations), MAX_UNDO),
     annotationRedoStack |-> <<>>]

pushHistory_NoCap(address) ==
    IF Len(addressHistory) > 0 /\ At(addressHistory, historyIndex) = address
    THEN [addressHistory |-> addressHistory, historyIndex |-> historyIndex]
    ELSE LET history == Append(SubSeq(addressHistory, 1, historyIndex + 1), address)
         IN  [addressHistory |-> history, historyIndex |-> Len(history) - 1]

pushHistory(address) ==
    IF Len(addressHistory) > 0 /\ At(addressHistory, historyIndex) = address
    THEN [addressHistory |-> addressHistory, historyIndex |-> historyIndex]
    ELSE LET history == ShiftOver(Append(SubSeq(addressHistory, 1, historyIndex + 1), address),
                                  MAX_HISTORY)
         IN  [addressHistory |-> history, historyIndex |-> Len(history) - 1]

AppInit ==
    /\ currentAddress = 0
    /\ addressHistory = <<>>
    /\ historyIndex = -1
    /\ bookmarks = <<>>
    /\ renames = EmptyMap
    /\ comments = EmptyMap
    /\ annotationUndoStack = <<>>
    /\ annotationRedoStack = <<>>
    /\ annotationActions = 0

AppIdle ==
    /\ currentAddress = 0
    /\ addressHistory = <<>>
    /\ historyIndex = -1
    /\ bookmarks = <<>>
    /\ renames = EmptyMap
    /\ comments = EmptyMap
    /\ annotationUndoStack = <<>>
    /\ annotationRedoStack = <<>>
    /\ annotationActions = MaxAnnotationActions

navVars == <<currentAddress, addressHistory, historyIndex>>
annotationVars ==
    <<bookmarks, renames, comments, annotationUndoStack, annotationRedoStack>>

SET_PE_FILE ==
    /\ \E addr \in EntryAddresses :
          /\ currentAddress' = addr
          /\ addressHistory' = <<addr>>
          /\ historyIndex' = 0
    /\ UNCHANGED <<annotationVars, annotationActions>>
    /\ UNCHANGED notApp

SET_ADDRESS ==
    /\ \E address \in NavAddresses :
          LET hist == pushHistory(address)
          IN  /\ currentAddress' = address
              /\ addressHistory' = hist.addressHistory
              /\ historyIndex' = hist.historyIndex
    /\ UNCHANGED <<annotationVars, annotationActions>>
    /\ UNCHANGED notApp

NAV_BACK ==
    /\ IF historyIndex <= 0
       THEN UNCHANGED navVars
       ELSE /\ historyIndex' = historyIndex - 1
            /\ currentAddress' = At(addressHistory, historyIndex - 1)
            /\ UNCHANGED addressHistory
    /\ UNCHANGED <<annotationVars, annotationActions>>
    /\ UNCHANGED notApp

NAV_FORWARD ==
    /\ IF historyIndex >= Len(addressHistory) - 1
       THEN UNCHANGED navVars
       ELSE /\ historyIndex' = historyIndex + 1
            /\ currentAddress' = At(addressHistory, historyIndex + 1)
            /\ UNCHANGED addressHistory
    /\ UNCHANGED <<annotationVars, annotationActions>>
    /\ UNCHANGED notApp

\* the bound on the number of annotation actions of a run
Annotating ==
    /\ annotationActions < MaxAnnotationActions
    /\ annotationActions' = annotationActions + 1
    /\ UNCHANGED navVars
    /\ UNCHANGED notApp

WithUndo ==
    /\ annotationUndoStack' = pushUndo.annotationUndoStack
    /\ annotationRedoStack' = pushUndo.annotationRedoStack

\* bookmarks.findIndex((b) => b.address === addr), one-based, 0 for -1
FindBookmark(addr) ==
    LET hits == { i \in 1..Len(bookmarks) : bookmarks[i].address = addr }
    IN  IF hits = {} THEN 0 ELSE CHOOSE i \in hits : \A j \in hits : i <= j

TOGGLE_BOOKMARK ==
    /\ Annotating
    /\ WithUndo
    /\ \E address \in AnnotationAddresses \cup {Undefined} :
          LET addr == IF address = Undefined THEN currentAddress ELSE address
              exists == FindBookmark(addr)
          IN  bookmarks' = IF exists > 0 THEN RemoveAt(bookmarks, exists)
                           ELSE Append(bookmarks, [address |-> addr, label |-> ""])
    /\ UNCHANGED <<renames, comments>>

SET_BOOKMARK_LABEL ==
    /\ Annotating
    /\ WithUndo
    /\ \E address \in AnnotationAddresses, label \in Labels :
          bookmarks' = [i \in 1..Len(bookmarks) |->
                           IF bookmarks[i].address = address
                           THEN [bookmarks[i] EXCEPT !.label = label] ELSE bookmarks[i]]
    /\ UNCHANGED <<renames, comments>>

RENAME_FUNCTION ==
    /\ Annotating
    /\ WithUndo
    /\ \E address \in AnnotationAddresses, name \in Names :
          renames' = MapSet(renames, address, name)
    /\ UNCHANGED <<bookmarks, comments>>

CLEAR_RENAME ==
    /\ Annotating
    /\ WithUndo
    /\ \E address \in AnnotationAddresses : renames' = MapDelete(renames, address)
    /\ UNCHANGED <<bookmarks, comments>>

SET_COMMENT ==
    /\ Annotating
    /\ WithUndo
    /\ \E address \in AnnotationAddresses, text \in Texts :
          comments' = MapSet(comments, address, text)
    /\ UNCHANGED <<bookmarks, renames>>

DELETE_COMMENT ==
    /\ Annotating
    /\ WithUndo
    /\ \E address \in AnnotationAddresses : comments' = MapDelete(comments, address)
    /\ UNCHANGED <<bookmarks, renames>>

\* the annotations a persisted or imported file can carry
BookmarkLists ==
    {<<>>} \cup { <<[address |-> a, label |-> l]>> : a \in AnnotationAddresses, l \in Labels }
NameMaps(values) ==
    {EmptyMap} \cup { MapSet(EmptyMap, a, v) : a \in AnnotationAddresses, v \in values }

LOAD_PERSISTED ==
    /\ Annotating
    /\ \E bs \in BookmarkLists, rs \in NameMaps(Names), cs \in NameMaps(Texts) :
          /\ bookmarks' = bs
          /\ renames' = rs
          /\ comments' = cs
    /\ UNCHANGED <<annotationUndoStack, annotationRedoStack>>

RECURSIVE MergeBookmarks(_, _)
MergeBookmarks(merged, incoming) ==
    IF incoming = <<>> THEN merged
    ELSE MergeBookmarks(
            IF \E i \in 1..Len(bookmarks) : bookmarks[i].address = Head(incoming).address
            THEN merged ELSE Append(merged, Head(incoming)),
            Tail(incoming))

IMPORT_ANNOTATIONS ==
    /\ Annotating
    /\ \E bs \in BookmarkLists, rs \in NameMaps(Names), cs \in NameMaps(Texts) :
          /\ bookmarks' = MergeBookmarks(bookmarks, bs)
          /\ renames' = MapMerge(renames, rs)
          /\ comments' = MapMerge(comments, cs)
    /\ UNCHANGED <<annotationUndoStack, annotationRedoStack>>

UNDO_ANNOTATION ==
    /\ Annotating
    /\ IF Len(annotationUndoStack) = 0
       THEN UNCHANGED annotationVars
       ELSE LET snapshot == annotationUndoStack[Len(annotationUndoStack)]
            IN  /\ bookmarks' = snapshot.bookmarks
                /\ renames' = snapshot.renames
                /\ comments' = snapshot.comments
                /\ annotationUndoStack' =
                       SubSeq(annotationUndoStack, 1, Len(annotationUndoStack) - 1)
                /\ annotationRedoStack' =
                       ShiftOver(Append(annotationRedoStack, snapshotAnnotations), MAX_UNDO)

REDO_ANNOTATION ==
    /\ Annotating
    /\ IF Len(annotationRedoStack) = 0
       THEN UNCHANGED annotationVars
       ELSE LET snapshot == annotationRedoStack[Len(annotationRedoStack)]
            IN  /\ bookmarks' = snapshot.bookmarks
                /\ renames' = snapshot.renames
                /\ comments' = snapshot.comments
                /\ annotationUndoStack' =
                       ShiftOver(Append(annotationUndoStack, snapshotAnnotations), MAX_UNDO)
                /\ annotationRedoStack' =
                       SubSeq(annotationRedoStack, 1, Len(annotationRedoStack) - 1)

\* return initialState
RESET ==
    /\ currentAddress' = 0
    /\ addressHistory' = <<>>
    /\ historyIndex' = -1
    /\ bookmarks' = <<>>
    /\ renames' = EmptyMap
    /\ comments' = EmptyMap
    /\ annotationUndoStack' = <<>>
    /\ annotationRedoStack' = <<>>
    /\ UNCHANGED annotationActions
    /\ UNCHANGED notApp

NavNext == SET_PE_FILE \/ SET_ADDRESS \/ NAV_BACK \/ NAV_FORWARD \/ RESET

AnnotationNext ==
    \/ TOGGLE_BOOKMARK
    \/ SET_BOOKMARK_LABEL
    \/ RENAME_FUNCTION
    \/ CLEAR_RENAME
    \/ SET_COMMENT
    \/ DELETE_COMMENT
    \/ LOAD_PERSISTED
    \/ IMPORT_ANNOTATIONS
    \/ UNDO_ANNOTATION
    \/ REDO_ANNOTATION

AppNext == NavNext \/ AnnotationNext

(***************************************************************************)
(* DisassemblyView: the display rows and the row of the current address.   *)
(* Row indices are zero-based as in the source.                            *)
(***************************************************************************)
MaxRowInsns == 3
RowBase == 4096

RowMnemonics == {"mov", "ret", "jmp", "jne", "int3"}

separatorMnemonics == {"ret", "retn", "jmp", "int3"}
branchMnemonics == {"ret", "retn", "jmp", "int3"}

LabelRow(fn) == [kind |-> "label", fn |-> fn]
InsnRow(insn, blockIdx) == [kind |-> "insn", insn |-> insn, blockIdx |-> blockIdx]
SeparatorRow == [kind |-> "separator"]

\* null for a separator row
rowAddress(row) ==
    IF row.kind = "insn" THEN row.insn.address
    ELSE IF row.kind = "label" THEN row.fn.address
    ELSE Undefined

RECURSIVE BuildRows(_, _, _, _, _, _)
\* the loop of the rows memo from instruction i on (one-based); funcs is
\* the key set of funcMap, xrefs the key set of xrefMap
BuildRows(instructions, funcs, xrefs, i, st, result) ==
    IF i > Len(instructions) THEN result
    ELSE LET insn == instructions[i]
             isFn == insn.address \in funcs
             afterLabel == IF isFn THEN st.blockIdx + 1 ELSE st.blockIdx
             prev == IF isFn THEN FALSE ELSE st.prevWasBranch
             blockIdx == IF prev \/ (insn.address \in xrefs /\ ~isFn)
                         THEN afterLabel + 1 ELSE afterLabel
             labelled == IF isFn
                         THEN Append(result, LabelRow([address |-> insn.address]))
                         ELSE result
             withInsn == Append(labelled, InsnRow(insn, blockIdx))
             mn == insn.mnemonic
             separated ==
                 IF /\ mn \in separatorMnemonics
                    /\ i + 1 <= Len(instructions)
                    /\ instructions[i + 1].address \notin funcs
                 THEN Append(withInsn, SeparatorRow) ELSE withInsn
         IN  BuildRows(instructions, funcs, xrefs, i + 1,
                       [blockIdx |-> blockIdx,
                        prevWasBranch |-> mn \in branchMnemonics
                                            \/ (StartsWithJ(mn) /\ mn # "jmp")],
                       separated)

RECURSIVE SearchRows(_, _, _, _, _)
\* the while loop of binarySearchRows
SearchRows(rs, address, lo, hi, best) ==
    IF lo > hi THEN best
    ELSE LET mid == (lo + hi) \div 2
             rowAddr == rowAddress(rs[mid + 1])
         IN  IF rowAddr = Undefined THEN SearchRows(rs, address, lo, mid - 1, best)
             ELSE IF rowAddr <= address THEN SearchRows(rs, address, mid + 1, hi, mid)
             ELSE SearchRows(rs, address, lo, mid - 1, best)

binarySearchRows(rs, address) == SearchRows(rs, address, 0, Len(rs) - 1, 0)

\* instruction lists of one-byte instructions from RowBase on
RECURSIVE RowInsnLists(_)
RowInsnLists(n) ==
    IF n = 0 THEN {<<>>}
    ELSE LET shorter == RowInsnLists(n - 1)
         IN  shorter \cup
             { Append(l, [address |-> RowBase + Len(l), mnemonic |-> mn]) :
                 l \in {s \in shorter : Len(s) = n - 1}, mn \in RowMnemonics }

RowInputs ==
    { [instructions |-> l, funcs |-> f, xrefs |-> x, currentAddress |-> a] :
        l \in RowInsnLists(MaxRowInsns),
        f \in SUBSET (RowBase..(RowBase + MaxRowInsns - 1)),
        x \in {{}, {RowBase + 1}},
        a \in (RowBase - 1)..(RowBase + MaxRowInsns) }

RowsInit ==
    /\ rowsIn \in RowInputs
    /\ rowsPc = "start"
    /\ displayRows = <<>>
    /\ currentIndex = 0

RowsIdle ==
    /\ rowsIn = [instructions |-> <<>>, funcs |-> {}, xrefs |-> {},
                 currentAddress |-> RowBase]
    /\ rowsPc = "done"
    /\ displayRows = <<>>
    /\ currentIndex = 0

\* const rows = useMemo(...)
Rows ==
    /\ rowsPc = "start"
    /\ displayRows' = BuildRows(rowsIn.instructions, rowsIn.funcs, rowsIn.xrefs, 1,
                                [blockIdx |-> 0, prevWasBranch |-> FALSE], <<>>)
    /\ rowsPc' = "rows"
    /\ UNCHANGED <<rowsIn, currentIndex>>
    /\ UNCHANGED notRows

\* const currentIndex = useMemo(...)
CurrentIndex ==
    /\ rowsPc = "rows"
    /\ currentIndex' = IF Len(displayRows) = 0 THEN 0
                       ELSE binarySearchRows(displayRows, rowsIn.currentAddress)
    /\ rowsPc' = "done"
    /\ UNCHANGED <<rowsIn, displayRows>>
    /\ UNCHANGED notRows

RowsNext == Rows \/ CurrentIndex

(***************************************************************************)
(* Specifications.  Each one runs one component; the others stay idle.     *)
(***************************************************************************)
InitWorker == WorkerInit /\ CfgIdle /\ PeIdle /\ RvaIdle /\ SweepIdle
        /\ ClientIdle /\ XrefIdle /\ SigIdle /\ StackIdle /\ RpcIdle
        /\ ViewIdle /\ AppIdle /\ RowsIdle

SpecWorker == InitWorker /\ [][WorkerNext]_vars

InitAnnot == AnnotInit /\ CfgIdle /\ PeIdle /\ RvaIdle /\ SweepIdle
        /\ ClientIdle /\ XrefIdle /\ SigIdle /\ StackIdle /\ RpcIdle
        /\ ViewIdle /\ AppIdle /\ RowsIdle

SpecAnnot == InitAnnot /\ [][AnnotNext]_vars

InitCFG == CfgInit /\ WorkerIdle /\ PeIdle /\ RvaIdle /\ SweepIdle
        /\ ClientIdle /\ XrefIdle /\ SigIdle /\ StackIdle /\ RpcIdle
        /\ ViewIdle /\ AppIdle /\ RowsIdle

SpecCFG == InitCFG /\ [][CfgNext]_vars

InitPE == PeInit /\ WorkerIdle /\ CfgIdle /\ RvaIdle /\ SweepIdle
        /\ ClientIdle /\ XrefIdle /\ SigIdle /\ StackIdle /\ RpcIdle
        /\ ViewIdle /\ AppIdle /\ RowsIdle

SpecPE == InitPE /\ [][PeNext]_vars

InitRva == RvaInit /\ WorkerIdle /\ CfgIdle /\ PeIdle /\ SweepIdle
        /\ ClientIdle /\ XrefIdle /\ SigIdle /\ StackIdle /\ RpcIdle
        /\ ViewIdle /\ AppIdle /\ RowsIdle

SpecRva == InitRva /\ [][RvaNext]_vars

InitSweep == SweepInit /\ WorkerIdle /\ CfgIdle /\ PeIdle /\ RvaIdle
        /\ ClientIdle /\ XrefIdle /\ SigIdle /\ StackIdle /\ RpcIdle
        /\ ViewIdle /\ AppIdle /\ RowsIdle

SpecSweep == InitSweep /\ [][SweepNext]_vars

InitSweepLive == SweepInit /\ WorkerIdle /\ CfgIdle /\ PeIdle /\ RvaIdle
        /\ ClientIdle /\ XrefIdle /\ SigIdle /\ StackIdle /\ RpcIdle
        /\ ViewIdle /\ AppIdle /\ RowsIdle

SpecSweepLive == InitSweepLive /\ [][SweepNext]_vars /\ WF_vars(SweepNext)

InitClient == ClientInit /\ WorkerIdle /\ CfgIdle /\ PeIdle /\ RvaIdle
        /\ SweepIdle /\ XrefIdle /\ SigIdle /\ StackIdle /\ RpcIdle
        /\ ViewIdle /\ AppIdle /\ RowsIdle

SpecClient == InitClient /\ [][ClientNext]_vars

InitXref == XrefInit /\ WorkerIdle /\ CfgIdle /\ PeIdle /\ RvaIdle
        /\ SweepIdle /\ ClientIdle /\ SigIdle /\ StackIdle /\ RpcIdle
        /\ ViewIdle /\ AppIdle /\ RowsIdle

SpecXref == InitXref /\ [][XrefNext]_vars

InitSig == SigInit /\ WorkerIdle /\ CfgIdle /\ PeIdle /\ RvaIdle /\ SweepIdle
        /\ ClientIdle /\ XrefIdle /\ StackIdle /\ RpcIdle /\ ViewIdle
        /\ AppIdle /\ RowsIdle

SpecSig == InitSig /\ [][SigNext]_vars

InitStack == StackInit /\ WorkerIdle /\ CfgIdle /\ PeIdle /\ RvaIdle
        /\ SweepIdle /\ ClientIdle /\ XrefIdle /\ SigIdle /\ RpcIdle
        /\ ViewIdle /\ AppIdle /\ RowsIdle

SpecStack == InitStack /\ [][StackNext]_vars

InitRpc == RpcInit /\ WorkerIdle /\ CfgIdle /\ PeIdle /\ RvaIdle /\ SweepIdle
        /\ ClientIdle /\ XrefIdle /\ SigIdle /\ StackIdle /\ ViewIdle
        /\ AppIdle /\ RowsIdle

SpecRpc == InitRpc /\ [][RpcNext]_vars /\ RpcFairness

InitView == ViewInit /\ WorkerIdle /\ CfgIdle /\ PeIdle /\ RvaIdle
        /\ SweepIdle /\ ClientIdle /\ XrefIdle /\ SigIdle /\ StackIdle
        /\ RpcIdle /\ AppIdle /\ RowsIdle

SpecView == InitView /\ [][ViewNext]_vars

InitNav == AppInit /\ WorkerIdle /\ CfgIdle /\ PeIdle /\ RvaIdle /\ SweepIdle
        /\ ClientIdle /\ XrefIdle /\ SigIdle /\ StackIdle /\ RpcIdle
        /\ ViewIdle /\ RowsIdle

SpecNav == InitNav /\ [][NavNext]_vars

InitAnnotation == AppInit /\ WorkerIdle /\ CfgIdle /\ PeIdle /\ RvaIdle
        /\ SweepIdle /\ ClientIdle /\ XrefIdle /\ SigIdle /\ StackIdle
        /\ RpcIdle /\ ViewIdle /\ RowsIdle

SpecAnnotation == InitAnnotation /\ [][AnnotationNext]_vars

InitRows == RowsInit /\ WorkerIdle /\ CfgIdle /\ PeIdle /\ RvaIdle
        /\ SweepIdle /\ ClientIdle /\ XrefIdle /\ SigIdle /\ StackIdle
        /\ RpcIdle /\ ViewIdle /\ AppIdle

SpecRows == InitRows /\ [][RowsNext]_vars

(***************************************************************************)
(* Properties of the block list (C2, C3, C4).                              *)
(***************************************************************************)
Count(seq, x) == Cardinality({i \in DOMAIN seq : seq[i] = x})

Built == cfgPc \in {"built", "loops"}

BlockIds == {cfgBlocks[i].id : i \in DOMAIN cfgBlocks}

TheFuncInsns == FuncInsns(cfgIn.func, cfgIn.instructions)

\* C2: every id in a succs or preds list is a valid block id (0..n-1, and
\* blocks[id].id = id), and preds is the inverse of succs with multiplicity.
C2_EdgesConsistent ==
    Built =>
      /\ \A i \in DOMAIN cfgBlocks :
           /\ cfgBlocks[i].id = i - 1
           /\ \A k \in DOMAIN cfgBlocks[i].succs :
                cfgBlocks[i].succs[k] \in 0..(Len(cfgBlocks) - 1)
           /\ \A k \in DOMAIN cfgBlocks[i].preds :
                cfgBlocks[i].preds[k] \in 0..(Len(cfgBlocks) - 1)
      /\ \A i, j \in DOMAIN cfgBlocks :
           Count(cfgBlocks[i].succs, j - 1) = Count(cfgBlocks[j].preds, i - 1)

\* a block list with a doubled edge, a self edge and a block with two successors
C2_Witness ==
    /\ Built
    /\ \E i, j \in DOMAIN cfgBlocks : Count(cfgBlocks[i].succs, j - 1) = 2
    /\ \E i \in DOMAIN cfgBlocks : Count(cfgBlocks[i].succs, i - 1) >= 1
    /\ \E i \in DOMAIN cfgBlocks : Len(cfgBlocks[i].preds) >= 2

BlockRange(b) == b.startAddr..(b.endAddr - 1)
InsnRange(insn) == insn.address..(insn.address + insn.size - 1)

BlocksDisjoint ==
    \A i, j \in DOMAIN cfgBlocks :
       i # j => BlockRange(cfgBlocks[i]) \cap BlockRange(cfgBlocks[j]) = {}

EachInsnInOneBlock ==
    \A k \in DOMAIN TheFuncInsns :
       Cardinality({i \in DOMAIN cfgBlocks :
          \E m \in DOMAIN cfgBlocks[i].insns :
             cfgBlocks[i].insns[m] = TheFuncInsns[k]}) = 1

BlockBytes == UNION {BlockRange(cfgBlocks[i]) : i \in DOMAIN cfgBlocks}
InsnBytes == UNION {InsnRange(TheFuncInsns[k]) : k \in DOMAIN TheFuncInsns}

\* C3: the block ranges are pairwise disjoint, every instruction of the function
\* is in exactly one block, and the union of the block ranges equals the union
\* of the instruction byte ranges (also with undecoded bytes between instructions).
C3_BlocksCoverExactlyTheInstructions ==
    Built => BlocksDisjoint /\ EachInsnInOneBlock /\ BlockBytes = InsnBytes

\* the in-function jumps: index into the function's instructions
DirectJumps ==
    {k \in DOMAIN TheFuncInsns :
        /\ StartsWithJ(TheFuncInsns[k].mnemonic)
        /\ DirectMatch(TheFuncInsns[k].opStr)
        /\ DirectTarget(TheFuncInsns[k].opStr) >= cfgIn.func.address
        /\ DirectTarget(TheFuncInsns[k].opStr) < FuncEnd(cfgIn.func)}

\* the jump at index k ends a block that has an edge to a block starting at T
LandsOnBlockStart(k) ==
    LET T == DirectTarget(TheFuncInsns[k].opStr)
    IN \E i, j \in DOMAIN cfgBlocks :
         /\ cfgBlocks[i].insns[Len(cfgBlocks[i].insns)] = TheFuncInsns[k]
         /\ cfgBlocks[j].startAddr = T
         /\ Count(cfgBlocks[i].succs, j - 1) >= 1
         /\ Count(cfgBlocks[j].preds, i - 1) >= 1

\* C4 as stated: every in-function jmp / conditional branch with a direct target
\* inside the function has a successor edge to a block whose startAddr is the target.
C4_EveryTransferLandsOnBlockStart ==
    Built => \A k \in DirectJumps : LandsOnBlockStart(k)

IsInsnAddr(a) == \E k \in DOMAIN TheFuncInsns : TheFuncInsns[k].address = a

\* C4, amended: the same for every such transfer whose target is the address of
\* a decoded instruction of the function.
C4_TransferToInstructionLandsOnBlockStart ==
    Built => \A k \in DirectJumps :
       IsInsnAddr(DirectTarget(TheFuncInsns[k].opStr)) => LandsOnBlockStart(k)

\* a backward jump and a forward branch, both to instruction addresses, in one function
C4_Witness ==
    /\ Built
    /\ \E k, m \in DirectJumps :
         /\ TheFuncInsns[k].mnemonic = "jmp" /\ TheFuncInsns[m].mnemonic = "jne"
         /\ IsInsnAddr(DirectTarget(TheFuncInsns[k].opStr))
         /\ IsInsnAddr(DirectTarget(TheFuncInsns[m].opStr))
         /\ DirectTarget(TheFuncInsns[k].opStr) < TheFuncInsns[k].address
         /\ DirectTarget(TheFuncInsns[m].opStr) > TheFuncInsns[m].address

(***************************************************************************)
(* Properties of the loop list (C5).                                       *)
(***************************************************************************)
SuccIds(bs, S) == UNION {{bs[i + 1].succs[k] : k \in DOMAIN bs[i + 1].succs} : i \in S}

RECURSIVE DistFrom(_, _, _, _, _)
\* the distance in edges from the frontier's origin to block id, -1 when unreachable
DistFrom(bs, seen, frontier, d, id) ==
    IF id \in frontier THEN d
    ELSE IF frontier = {} THEN -1
    ELSE DistFrom(bs, seen \cup frontier,
                  SuccIds(bs, frontier) \ (seen \cup frontier), d + 1, id)

\* BFS distance from block 0
Layer(id) == DistFrom(cfgBlocks, {}, {0}, 0, id)

Reachable(id) == Layer(id) >= 0

\* C5: every reported loop has a pair of blocks (p, h), both reachable from
\* block 0, with h.startAddr = headerAddr, h in p.succs and layer(h) <= layer(p).
C5_LoopHasReachableBackEdge ==
    cfgPc = "loops" =>
      \A n \in DOMAIN cfgLoops :
         \E p, h \in BlockIds :
            /\ Reachable(p) /\ Reachable(h)
            /\ cfgBlocks[h + 1].startAddr = cfgLoops[n].headerAddr
            /\ Count(cfgBlocks[p + 1].succs, h) >= 1
            /\ Layer(h) <= Layer(p)

(***************************************************************************)
(* Properties of the PE parser.                                            *)
(***************************************************************************)
Parsed == pePc \in {"parsed", "configured"}

\* C6: every section of a returned PEFile has its raw range inside the
\* image (pointerToRawData + sizeOfRawData <= image length); an image with
\* a section header whose raw range escapes makes parsePE fail.
C6_SectionsWithinImage ==
    (Parsed /\ peOut.ok) =>
        \A k \in DOMAIN peOut.sections :
            peOut.sections[k].pointerToRawData + peOut.sections[k].sizeOfRawData
                <= peImage.len

\* the signatures, the magic and the section headers of an image are valid:
\* read straight from the bytes, independent of parsePE
ValidHeaders(view) ==
    LET peOffset == getUint32(view, 60)
        coffOffset == peOffset + 4
        opt == coffOffset + 20
        magic == getUint16(view, opt)
        fixed == IF magic = IMAGE_NT_OPTIONAL_HDR64_MAGIC THEN 112 ELSE 96
        count == getUint16(view, coffOffset + 2)
        sh == opt + getUint16(view, coffOffset + 16)
    IN /\ InBounds(view, 0, 64)
       /\ getUint16(view, 0) = IMAGE_DOS_SIGNATURE
       /\ InBounds(view, peOffset, 24)
       /\ getUint32(view, peOffset) = IMAGE_NT_SIGNATURE
       /\ InBounds(view, opt, fixed)
       /\ magic \in {IMAGE_NT_OPTIONAL_HDR32_MAGIC, IMAGE_NT_OPTIONAL_HDR64_MAGIC}
       /\ (count = 0 \/ InBounds(view, sh, 40 * count))
       /\ \A i \in 1..count :
             SectionAt(view, sh + (i - 1) * 40).pointerToRawData
               + SectionAt(view, sh + (i - 1) * 40).sizeOfRawData <= view.len

\* C7: for an image whose signatures, optional-header magic and section
\* headers are valid, parsePE never fails because of a malformed table
\* (imports, exports, names, truncated data directories): it returns a PEFile.
C7_MalformedTablesNeverFail ==
    (Parsed /\ ValidHeaders(peImage)) => peOut.ok

DescriptiveErrors ==
    {"Invalid DOS signature", "Invalid PE offset", "Invalid PE signature",
     "Invalid optional header magic"}

\* C8: every failure of parsePE is one of the four descriptive errors; no
\* other error kind (an out-of-bounds read error) escapes.
C8_OnlyDescriptiveErrors ==
    (Parsed /\ ~peOut.ok) => peOut.error \in DescriptiveErrors

RECURSIVE ThunkCount(_, _, _)
\* the thunks before the terminator (or the end of the image)
ThunkCount(view, is64, thunkOffset) ==
    LET thunkSize == IF is64 THEN 8 ELSE 4 IN
    IF ~(thunkOffset + thunkSize <= view.len) THEN 0
    ELSE IF ThunkAt(view, thunkOffset, is64).zero THEN 0
    ELSE 1 + ThunkCount(view, is64, thunkOffset + thunkSize)

RECURSIVE DescriptorsKept(_, _, _, _)
\* for each descriptor that yields an ImportEntry: its FirstThunk and thunk count
DescriptorsKept(view, sections, is64, descriptorOffset) ==
    IF ~(descriptorOffset + 20 <= view.len) THEN <<>>
    ELSE LET oft == getUint32(view, descriptorOffset)
             nameRVA == getUint32(view, descriptorOffset + 12)
             ft == getUint32(view, descriptorOffset + 16)
             thunkRVA == IF oft # 0 THEN oft ELSE ft
             rest == DescriptorsKept(view, sections, is64, descriptorOffset + 20)
         IN IF oft = 0 /\ nameRVA = 0 /\ ft = 0 THEN <<>>
            ELSE IF rvaToFileOffset(nameRVA, sections) >= view.len THEN rest
            ELSE <<[firstThunk |-> ft,
                    thunks |-> IF thunkRVA = 0 THEN 0
                               ELSE ThunkCount(view, is64,
                                        rvaToFileOffset(thunkRVA, sections))]>> \o rest

ImportDescriptors ==
    LET dir == DirOrEmpty(peOut.dataDirectories, IMAGE_DIRECTORY_ENTRY_IMPORT) IN
    IF dir.virtualAddress = 0 \/ dir.size = 0 THEN <<>>
    ELSE DescriptorsKept(peImage, peOut.sections, peOut.is64,
                         rvaToFileOffset(dir.virtualAddress, peOut.sections))

\* C10: every ImportEntry has a list of IAT VAs as long as its list of
\* names, the i-th VA is imageBase + firstThunk + i * thunkSize, every
\* thunk has its name at its own index, and buildIATLookup maps each VA to
\* the (library, function) of its thunk.
C10_IatAlignedWithNames ==
    /\ (Parsed /\ peOut.ok) =>
          \A k \in DOMAIN peOut.imports :
             LET imp == peOut.imports[k]
                 d == ImportDescriptors[k]
                 thunkSize == IF peOut.is64 THEN 8 ELSE 4
             IN /\ HasIatAddresses(imp)
                /\ Len(imp.iatAddresses) = Len(imp.functions)
                /\ Len(imp.functions) = d.thunks
                /\ \A i \in DOMAIN imp.functions :
                      imp.iatAddresses[i] = peOut.optionalHeader.imageBase
                                            + d.firstThunk + (i - 1) * thunkSize
    /\ pePc = "configured" =>
          /\ iatOut.ok
          /\ \A k \in DOMAIN peOut.imports : \A i \in DOMAIN peOut.imports[k].functions :
                iatOut.map[peOut.imports[k].iatAddresses[i]]
                    = [lib |-> peOut.imports[k].libraryName,
                       func |-> peOut.imports[k].functions[i]]

(***************************************************************************)
(* Properties of rvaToFileOffset.                                          *)
(***************************************************************************)
Translated == rvaOut # Undefined

Holds(k) ==
    /\ rvaIn.rva >= rvaIn.sections[k].virtualAddress
    /\ rvaIn.rva < rvaIn.sections[k].virtualAddress + rvaIn.sections[k].virtualSize

MapsBack(k) ==
    rvaOut - rvaIn.sections[k].pointerToRawData + rvaIn.sections[k].virtualAddress
        = rvaIn.rva

InNoSection == \A k \in DOMAIN rvaIn.sections : ~Holds(k)

\* C9 as stated: for every section holding the RVA, the file offset maps
\* back to the RVA under that section's base, also when the virtual ranges
\* of several sections overlap; an RVA inside no section is returned unchanged.
C9_RoundTripEverySection ==
    Translated =>
        /\ \A k \in DOMAIN rvaIn.sections : Holds(k) => MapsBack(k)
        /\ InNoSection => rvaOut = rvaIn.rva

\* C9 amended: the file offset maps back to the RVA under the base of the
\* first section, in list order, that holds the RVA; an RVA inside no
\* section is returned unchanged.
C9_RoundTripFirstSection ==
    Translated =>
        /\ \A k \in DOMAIN rvaIn.sections :
              (Holds(k) /\ \A j \in 1..(k - 1) : ~Holds(j)) => MapsBack(k)
        /\ InNoSection => rvaOut = rvaIn.rva

\* two overlapping sections with different bases both hold the translated RVA
C9_Witness ==
    /\ Translated
    /\ \E j, k \in DOMAIN rvaIn.sections :
          /\ j < k /\ Holds(j) /\ Holds(k)
          /\ rvaIn.sections[j].pointerToRawData - rvaIn.sections[j].virtualAddress
               # rvaIn.sections[k].pointerToRawData - rvaIn.sections[k].virtualAddress
          /\ MapsBack(j)

(***************************************************************************)
(* Properties of the linear sweep (C11, C12).                              *)
(***************************************************************************)
RunEnd(run) == run.address + run.size * run.count

\* C11: in the list disassemble returns, addresses are strictly ascending,
\* consecutive instructions never overlap and every instruction lies inside
\* [base, base + bytes.length), also across chunk boundaries, after a
\* one-byte resynchronisation and after a chunk whose decoding threw.
C11_SweepOrderedInsideSection ==
    swPc = "done" =>
        /\ \A i \in DOMAIN swOut :
              /\ swOut[i].size >= 1
              /\ swOut[i].address >= SweepBase
              /\ RunEnd(swOut[i]) <= SweepBase + swLen
        /\ \A i \in DOMAIN swOut : \A j \in DOMAIN swOut :
              i < j => RunEnd(swOut[i]) <= swOut[j].address

\* a finished sweep that decoded on both sides of a thrown chunk and of a resync
C11_Witness ==
    /\ swPc = "done"
    /\ \E i, j, k, l \in DOMAIN swLog :
          /\ i < j /\ j < k /\ k < l
          /\ swLog[i] = "decoded" /\ swLog[j] = "empty"
          /\ swLog[k] = "threw" /\ swLog[l] = "decoded"
    /\ \E i \in DOMAIN swOut : swOut[i].address >= SweepBase + CHUNK_SIZE

\* C12: every iteration of the sweep strictly increases offset, and the
\* sweep terminates whatever the decoder returns.
C12_SweepAdvancesAndTerminates ==
    /\ [][swPc = "sweep" /\ swPc' = "sweep" => swOffset' > swOffset]_vars
    /\ <>(swPc = "done")

\* a finished sweep that went through a resync, a thrown chunk and a decoded chunk
C12_Witness ==
    /\ swPc = "done"
    /\ \E i, j, k \in DOMAIN swLog :
          swLog[i] = "empty" /\ swLog[j] = "threw" /\ swLog[k] = "decoded"
    /\ swOffset >= swLen

(***************************************************************************)
(* Properties of the annotator (C13).                                      *)
(***************************************************************************)
Annotated == wreq.method = "disassemble" /\ wres.done

\* the comment the stated order gives: RIP-relative string, RIP-relative
\* import, absolute string, absolute import
OrderedComment(insn, strings, iat) ==
    LET hasRip == RipMatches(insn.opStr) # {}
        lits == HexLiterals(insn.opStr)
    IN IF hasRip /\ RipTarget(insn) \in DOMAIN strings
         THEN Truncate(strings[RipTarget(insn)])
       ELSE IF hasRip /\ RipTarget(insn) \in DOMAIN iat
         THEN IatComment(iat[RipTarget(insn)])
       ELSE IF FirstHit(lits, strings) # Undefined
         THEN Truncate(strings[FirstHit(lits, strings)])
       ELSE IF FirstHit(lits, iat) # Undefined
         THEN IatComment(iat[FirstHit(lits, iat)])
       ELSE NoComment

\* C13: every instruction a disassemble request returns carries the comment
\* of the first matching rule in the order RIP-relative string, RIP-relative
\* import, absolute string, absolute import.
C13_AnnotatorPriorityOrder ==
    [][wreq.method = "disassemble" /\ wlog' # wlog =>
         \A i \in DOMAIN wres'.result :
             wres'.result[i].comment = OrderedComment(wreq.insns[i], stringMap, iatMap)]_vars

\* an answered request whose RIP-relative target is an import and one of
\* whose hex literals is a string
C13_Witness ==
    /\ Annotated
    /\ \E i \in DOMAIN wreq.insns :
          /\ RipMatches(wreq.insns[i].opStr) # {}
          /\ RipTarget(wreq.insns[i]) \in DOMAIN iatMap
          /\ RipTarget(wreq.insns[i]) \notin DOMAIN stringMap
          /\ FirstHit(HexLiterals(wreq.insns[i].opStr), stringMap) # Undefined

(***************************************************************************)
(* Properties of the disassembly caches (C14, C15).                        *)
(***************************************************************************)
\* C14: the client's cache never holds a disassembly of an image other than
\* the one loaded (configure clears it and no late answer fills it again).
C14_CacheFreeOfOldImages ==
    \A k \in DOMAIN disasmCache : disasmCache[k].image = cliImage

\* C15: a memoized list returned by the worker client or by the engine was
\* computed from the same base address, byte count and mode, and from the
\* image now loaded.
C15_MemoizedOnlyForSameRequest ==
    /\ (cliOut.returned /\ cliOut.memoized) => cliOut.result = cliOut.args
    /\ (engOut.returned /\ engOut.memoized) => engOut.result = engOut.args

(***************************************************************************)
(* Determinism of function detection (C16).                                *)
(***************************************************************************)
\* C16: two answers to the same detectFunctions request are the same list,
\* whatever the worker's state was when each was computed.
C16_DetectFunctionsDeterministic ==
    (wreq.method = "detectFunctions" /\ Len(wlog) = MaxRequests) =>
        wlog[1].result = wlog[2].result

(***************************************************************************)
(* The direct-call scenario (C18).                                         *)
(***************************************************************************)
AddressesAndSizes(list) == [i \in DOMAIN list |-> <<list[i].address, list[i].size>>]

ScenarioAnswered(i) == wreq \in ScenarioRequests /\ i \in DOMAIN wlog /\ wlog[i].ready

\* C18 as stated: with the decoder loaded, the scenario section yields the
\* two functions 0x400000 (size 6) and 0x40000A (size 4).
C18_ScenarioTwoFunctionsSizeSix ==
    \A i \in DOMAIN wlog :
        ScenarioAnswered(i) =>
            AddressesAndSizes(wlog[i].result) = <<<<4194304, 6>>, <<4194314, 4>>>>

\* C18 amended: the scenario section yields the single function 0x40000A of
\* size 4 when no entry point is given, and 0x400000 of size 10 followed by
\* 0x40000A of size 4 when the entry point is 0x400000.
C18_ScenarioCallTargetOnly ==
    \A i \in DOMAIN wlog :
        ScenarioAnswered(i) =>
            AddressesAndSizes(wlog[i].result) =
                IF wreq.options.entryPoint = Undefined
                THEN <<<<4194314, 4>>>>
                ELSE <<<<4194304, 10>>, <<4194314, 4>>>>

C18_Witness ==
    /\ wreq.options.entryPoint = Undefined
    /\ \E i \in DOMAIN wlog : ScenarioAnswered(i) /\ Len(wlog[i].result) = 1

(***************************************************************************)
(* Properties of the xref builder (C17).                                   *)
(***************************************************************************)
\* the data xrefs of the answer, each with its target
DataXrefs ==
    UNION { { [to |-> xrOut.entries[k].to, from |-> xrOut.entries[k].xrefs[j].from] :
                j \in {i \in DOMAIN xrOut.entries[k].xrefs :
                         xrOut.entries[k].xrefs[i].type = "data"} } :
            k \in DOMAIN xrOut.entries }

\* the instruction an xref comes from (addresses are distinct in a list)
SourceInsn(from) == xrIn[CHOOSE k \in DOMAIN xrIn : xrIn[k].address = from]

NonControl(mn) == mn # "call" /\ ~StartsWithJ(mn)

\* C17 as stated: every data xref comes from a non-control instruction and
\* is filed under a target above 0x10000, for literals and RIP-relative
\* references alike.
C17_DataXrefsNonControlAboveThreshold ==
    \A x \in DataXrefs : NonControl(SourceInsn(x.from).mnemonic) /\ x.to > 65536

\* C17 amended: a data xref comes either from a hex literal above 0x10000 of
\* a non-control instruction, or from the RIP-relative reference of an
\* instruction that is neither call nor jmp, filed under address + size +-
\* disp with no lower bound.
C17_DataXrefsByOrigin ==
    \A x \in DataXrefs :
        LET insn == SourceInsn(x.from)
        IN /\ ~DirectMatch(insn.opStr)
           /\ IF RipMatches(insn.opStr) # {}
              THEN insn.mnemonic \notin {"call", "jmp"} /\ x.to = RipTarget(insn)
              ELSE /\ NonControl(insn.mnemonic)
                   /\ x.to > 65536
                   /\ \E k \in DOMAIN insn.opStr :
                         insn.opStr[k].t = "hex" /\ insn.opStr[k].v = x.to

\* an answer with a data xref from a literal and one from a RIP-relative
\* reference
C17_Witness ==
    /\ xrOut.done
    /\ \E x \in DataXrefs : RipMatches(SourceInsn(x.from).opStr) # {}
    /\ \E x \in DataXrefs : RipMatches(SourceInsn(x.from).opStr) = {}

(***************************************************************************)
(* Properties of the 32-bit signature inference (C19).                     *)
(***************************************************************************)
SigLast == sigIn[Len(sigIn)]

EndsInRet == sigOut.done /\ IsRet(SigLast.mnemonic)

\* the operand N of the final ret, hex or decimal; 0 when there is none
RetOperand ==
    IF SigLast.opStr = <<>> THEN 0 ELSE SigLast.opStr[1].v

\* C19: a 32-bit function ending in ret N with N > 0 is exactly
\* {stdcall, floor(N / 4)} whatever its other instructions are; with N = 0
\* or no operand the convention is not stdcall.
C19_RetNDecidesStdcall ==
    EndsInRet =>
        IF RetOperand > 0
        THEN sigOut.sig = [convention |-> "stdcall", paramCount |-> RetOperand \div 4]
        ELSE sigOut.sig.convention # "stdcall"

(***************************************************************************)
(* Properties of the stack frame analysis (C20).                           *)
(***************************************************************************)
\* the offsets N of the operands [reg sign 0xN] of the function
AccessedAt(reg, sign) ==
    UNION { { stackIn.insns[k].opStr[j].v :
                j \in {i \in DOMAIN stackIn.insns[k].opStr :
                         /\ stackIn.insns[k].opStr[i].t = reg
                         /\ stackIn.insns[k].opStr[i].s = sign} } :
            k \in DOMAIN stackIn.insns }

ParamOffsets ==
    {n \in AccessedAt(bpReg(stackIn.is64), 1) : n >= minParamOffset(stackIn.is64)}

LocalOffsets ==
    AccessedAt(bpReg(stackIn.is64), -1) \cup AccessedAt(spReg(stackIn.is64), 1)

FrameVars == IF stackOut.frame = None THEN <<>> ELSE stackOut.frame.vars

HasVar(offset, name) ==
    \E i \in DOMAIN FrameVars : FrameVars[i].offset = offset /\ FrameVars[i].name = name

\* C20: every parameter offset appears as arg_i with i its 0-based rank
\* among the parameter offsets, and every local offset appears as var_<N>,
\* also when one number is used on both sides of the frame pointer.
C20_ParamsAndLocalsNamed ==
    stackOut.done =>
        /\ \A n \in ParamOffsets :
              HasVar(n, <<"arg", Cardinality({m \in ParamOffsets : m < n})>>)
        /\ \A n \in LocalOffsets : HasVar(n, <<"var", n>>)

(***************************************************************************)
(* Exactness of the xref builder (C21).                                    *)
(***************************************************************************)
\* the xrefs the three cases give for one instruction, as [to, type] records
CaseXrefs(insn) ==
    IF Len(insn.opStr) = 1 /\ insn.opStr[1].t = "hex"
    THEN IF insn.mnemonic = "call" THEN <<[to |-> insn.opStr[1].v, type |-> "call"]>>
         ELSE IF insn.mnemonic = "jmp" THEN <<[to |-> insn.opStr[1].v, type |-> "jmp"]>>
         ELSE IF StartsWithJ(insn.mnemonic)
              THEN <<[to |-> insn.opStr[1].v, type |-> "branch"]>>
         ELSE <<>>
    ELSE IF \E k \in DOMAIN insn.opStr : insn.opStr[k].t = "rip"
    THEN <<[to |-> RipTarget(insn),
            type |-> IF insn.mnemonic \in {"call", "jmp"} THEN insn.mnemonic ELSE "data"]>>
    ELSE IF NonControl(insn.mnemonic)
    THEN LET big == SelectSeq(insn.opStr, LAMBDA tok : tok.t = "hex" /\ tok.v > 65536)
         IN [i \in DOMAIN big |-> [to |-> big[i].v, type |-> "data"]]
    ELSE <<>>

\* how often the answer files an xref of this type from this address under to
Recorded(to, from, type) ==
    Cardinality({ <<k, j>> \in (DOMAIN xrOut.entries) \X (1..(2 * MaxXrefInsns + 2)) :
                    /\ xrOut.entries[k].to = to
                    /\ j \in DOMAIN xrOut.entries[k].xrefs
                    /\ xrOut.entries[k].xrefs[j] = [from |-> from, type |-> type] })

Expected(insn, to, type) ==
    Cardinality({i \in DOMAIN CaseXrefs(insn) : CaseXrefs(insn)[i] = [to |-> to, type |-> type]})

XrefTypes == {"call", "jmp", "branch", "data"}

XrefTargets ==
    {xrOut.entries[k].to : k \in DOMAIN xrOut.entries}
    \cup UNION { {CaseXrefs(xrIn[k])[i].to : i \in DOMAIN CaseXrefs(xrIn[k])} : k \in DOMAIN xrIn }

\* C21: the answer holds, for each instruction, exactly the xrefs of the
\* first matching case (bare literal, RIP-relative, literals of a
\* non-control instruction), no key is filed twice, and nothing else.
C21_ExactlyTheFirstMatchingCase ==
    xrOut.done =>
        /\ \A k \in DOMAIN xrIn : \A to \in XrefTargets : \A type \in XrefTypes :
              Recorded(to, xrIn[k].address, type) = Expected(xrIn[k], to, type)
        /\ \A k \in DOMAIN xrOut.entries :
              /\ xrOut.entries[k].xrefs # <<>>
              /\ \A j \in DOMAIN xrOut.entries[k].xrefs :
                    \E i \in DOMAIN xrIn : xrIn[i].address = xrOut.entries[k].xrefs[j].from
              /\ \A j \in DOMAIN xrOut.entries : j # k => xrOut.entries[j].to # xrOut.entries[k].to

\* an answer to a list with a bare literal of a non-control instruction
\* (no xref) and a conditional jump to a bare literal (a branch xref)
C21_Witness ==
    /\ xrOut.done
    /\ \E k \in DOMAIN xrIn : DirectMatch(xrIn[k].opStr) /\ xrIn[k].mnemonic = "mov"
    /\ \E k \in DOMAIN xrIn : DirectMatch(xrIn[k].opStr) /\ xrIn[k].mnemonic = "jne"
    /\ \E k \in DOMAIN xrOut.entries : xrOut.entries[k].xrefs[1].type = "branch"

(***************************************************************************)
(* Edges of conditional branches and fallthroughs (C22, C29).              *)
(***************************************************************************)
LastOf(b) == b.insns[Len(b.insns)]

\* block i ends with a conditional branch whose direct target is its endAddr
BranchesToFallthrough(i) ==
    /\ StartsWithJ(LastOf(cfgBlocks[i]).mnemonic)
    /\ LastOf(cfgBlocks[i]).mnemonic # "jmp"
    /\ DirectMatch(LastOf(cfgBlocks[i]).opStr)
    /\ DirectTarget(LastOf(cfgBlocks[i]).opStr) = cfgBlocks[i].endAddr

\* C22: a block ending with a conditional branch to its own endAddr, where
\* another block starts, lists that block twice in succs, and that block
\* lists it twice in preds.
C22_BranchToFallthroughDoubled ==
    Built =>
        \A i, j \in DOMAIN cfgBlocks :
            (BranchesToFallthrough(i) /\ cfgBlocks[j].startAddr = cfgBlocks[i].endAddr) =>
                /\ cfgBlocks[i].succs = <<j - 1, j - 1>>
                /\ Count(cfgBlocks[j].preds, i - 1) = 2

C22_Witness ==
    /\ Built
    /\ \E i, j \in DOMAIN cfgBlocks :
          /\ BranchesToFallthrough(i)
          /\ cfgBlocks[j].startAddr = cfgBlocks[i].endAddr
          /\ Len(cfgBlocks[j].preds) > 2

\* C29: a block whose last instruction is neither a return nor a jmp has an
\* edge to the block that starts at its endAddr, when there is one.
C29_FallthroughComplete ==
    Built =>
        \A i, j \in DOMAIN cfgBlocks :
            (/\ ~IsRet(LastOf(cfgBlocks[i]).mnemonic)
             /\ LastOf(cfgBlocks[i]).mnemonic # "jmp"
             /\ cfgBlocks[j].startAddr = cfgBlocks[i].endAddr) =>
                Count(cfgBlocks[i].succs, j - 1) >= 1

(***************************************************************************)
(* Keys of the string map (C23).                                           *)
(***************************************************************************)
\* the string str lies in the image at file offset o
StringAtOffset(str, o) ==
    \A i \in DOMAIN str : InBounds(peImage, o + i - 1, 1) /\ getUint8(peImage, o + i - 1) = str[i]

\* key is base plus the RVA of a string-section offset that holds the string
KeyedFrom(key, base) ==
    \E k \in DOMAIN peOut.sections :
        LET sec == peOut.sections[k] IN
        /\ sec.name \in StringSectionNames
        /\ \E o \in sec.pointerToRawData..(sec.pointerToRawData + sec.sizeOfRawData - 1) :
              /\ key = base + sec.virtualAddress + (o - sec.pointerToRawData)
              /\ StringAtOffset(peOut.strings[key], o)

\* C23: every key of the string map is the VA of the string's first byte:
\* imageBase + section.virtualAddress + (file offset - pointerToRawData).
C23_StringKeysAreStartVAs ==
    (Parsed /\ peOut.ok) =>
        \A key \in DOMAIN peOut.strings :
            KeyedFrom(key, peOut.optionalHeader.imageBase)

(***************************************************************************)
(* Properties of the worker RPC (C24).                                     *)
(***************************************************************************)
\* ids are used once; a settled request was sent, is settled once, by the
\* outcome of its own answer, and is no longer pending; a sent request is
\* pending or settled
RpcMatched ==
    /\ \A id \in DOMAIN rpcSent : Len(rpcSent[id]) = 1 /\ id < rpcNextId
    /\ \A id \in DOMAIN rpcSettled :
          /\ id \in DOMAIN rpcSent
          /\ rpcSettled[id] = <<IF rpcSent[id][1] THEN "rejected" ELSE "resolved">>
          /\ id \notin rpcPending
    /\ rpcPending \cup DOMAIN rpcSettled = DOMAIN rpcSent

\* C24: request ids are never reused, every promise is settled at most once
\* and by the answer carrying its id, a message with an id that is not
\* pending changes nothing, and every request is eventually settled and
\* removed from the pending map.
C24_RpcMatching ==
    /\ []RpcMatched
    /\ [][rpcStray' # rpcStray => UNCHANGED <<rpcPending, rpcSettled>>]_vars
    /\ \A id \in RpcIds :
          (id \in rpcPending) ~> (id \notin rpcPending /\ id \in DOMAIN rpcSettled)

\* every request settled, one resolved and one rejected, a stray message seen
C24_Witness ==
    /\ rpcStray = 0
    /\ rpcNextId > MaxRpcSends
    /\ rpcPending = {}
    /\ \E a, b \in DOMAIN rpcSettled :
          rpcSettled[a] = <<"resolved">> /\ rpcSettled[b] = <<"rejected">>

(***************************************************************************)
(* The busy flag of DisassemblyView (C25).                                 *)
(***************************************************************************)
\* C25: once every outstanding disassembly request has settled, the
\* disassembling flag is false.
C25_BusyFlagClearedWhenSettled ==
    viewInFlight = {} => ~disassembling

(***************************************************************************)
(* The navigation history of appReducer (C26).                             *)
(***************************************************************************)
\* C26: addressHistory has at most 50 entries; historyIndex is -1 exactly
\* when addressHistory is empty and otherwise indexes an entry; whenever
\* addressHistory is non-empty, currentAddress is the entry at historyIndex.
C26_HistoryInvariant ==
    /\ Len(addressHistory) <= 50
    /\ historyIndex = -1 <=> addressHistory = <<>>
    /\ addressHistory # <<>> =>
          /\ 0 <= historyIndex
          /\ historyIndex < Len(addressHistory)
          /\ currentAddress = At(addressHistory, historyIndex)

\* a full history with the current address back at its first entry
C26_Witness ==
    /\ Len(addressHistory) = MAX_HISTORY
    /\ historyIndex = 0
    /\ currentAddress = addressHistory[1]
    /\ addressHistory[1] \notin EntryAddresses

(***************************************************************************)
(* The redo stack of appReducer (C27).                                     *)
(***************************************************************************)
Annotations == <<bookmarks, renames, comments>>

\* C27: every action other than UNDO_ANNOTATION / REDO_ANNOTATION that
\* changes bookmarks, renames or comments empties annotationRedoStack.
C27_AnnotationChangeEmptiesRedo ==
    [][(Annotations' # Annotations /\ ~UNDO_ANNOTATION /\ ~REDO_ANNOTATION)
          => annotationRedoStack' = <<>>]_vars

(***************************************************************************)
(* Loops and cycles of the successor graph (C28).                          *)
(***************************************************************************)
\* block id can be reached again from its own successors
OnCycle(id) == DistFrom(cfgBlocks, {}, SuccIds(cfgBlocks, {id}), 0, id) >= 0

\* C28: the block at every reported headerAddr lies on a cycle of the
\* successor graph, so an acyclic graph has no reported loop.
C28_LoopHeadersLieOnCycles ==
    cfgPc = "loops" =>
      \A n \in DOMAIN cfgLoops :
        \E id \in BlockIds :
          /\ cfgBlocks[id + 1].startAddr = cfgLoops[n].headerAddr
          /\ OnCycle(id)

(***************************************************************************)
(* The row of the current address (C30).                                   *)
(***************************************************************************)
\* the zero-based indices of the rows whose address is <= a
RowsUpTo(a) ==
    { i \in 0..(Len(displayRows) - 1) :
        /\ rowAddress(displayRows[i + 1]) # Undefined
        /\ rowAddress(displayRows[i + 1]) <= a }

\* C30: binarySearchRows(rows, a) is the index of the last row whose
\* address is <= a, and 0 when there is none.
C30_LastRowAtOrBelow ==
    rowsPc = "done" =>
      currentIndex = IF RowsUpTo(rowsIn.currentAddress) = {} THEN 0
                     ELSE MaxOf(RowsUpTo(rowsIn.currentAddress))
====
